---- MODULE Spec2Model ----
(***************************************************************************)
(* Refyne data-cleansing service: the HTTP job life cycle (upload, clean,  *)
(* cancel, report, download), the rate limiter and the API key store.      *)
(*                                                                         *)
(* Execution model.  All route handlers and process_cleaning_job are       *)
(* coroutines of one asyncio event loop.  A coroutine gives the loop away  *)
(* only at an await; process_cleaning_job contains none, so between its    *)
(* first statement and its last no handler runs.  The variable `running`   *)
(* holds the job whose routine owns the loop; handlers need it to be NULL. *)
(* The routine is started by Starlette after the response of POST /clean   *)
(* has been sent, so handlers may run between creation and start.          *)
(*                                                                         *)
(* Calls into pandas and the cleansing engine may raise at every step of   *)
(* the routine; the file-system calls of the route handlers (write on      *)
(* upload, unlink on delete) are taken to succeed.                         *)
(***************************************************************************)
EXTENDS Integers, Sequences, FiniteSets, TLC

\* Python None, and the value of a datetime.now() stamp (instants are not
\* compared anywhere in the job routes, only tested for presence).
NULL == "null"
TS == "datetime"

\* ---- bounds -------------------------------------------------------------
MaxUploads == 1        \* files stored by POST /upload
MaxJobs == 1           \* jobs created by POST /clean
TicksPerSecond == 2    \* resolution of the clock: instants per second
MaxClock == 8          \* last instant of the rate limiter's clock, in ticks
MaxRequests == 2       \* largest cap N of a RateLimiter
MaxPeriod == 2         \* longest window P of a RateLimiter, in seconds
MaxCalls == 3          \* check_rate_limit calls of one identifier in one window
MaxKeys == 2           \* keys made by generate_api_key after start-up
MaxUsage == 2          \* successful validations of one key
MaxBatchJobs == 1      \* batch jobs made by BatchService.create_clean_job
MaxBatchLen == 2       \* longest list of file ids given to a batch job
MaxLogged == 2         \* log_transformation calls for one file id
MaxIssues == 3         \* issues the checks of one validate call find
MaxRows == 2           \* rows of a customer table

\* ---- api/config.py ------------------------------------------------------
max_file_size_mb == 100
allowed_extensions == <<".csv", ".xlsx", ".xls", ".json", ".parquet">>
SUPPORTED_FORMATS == {".csv", ".xlsx", ".xls", ".json", ".parquet"}

max_size_bytes == max_file_size_mb * 1024 * 1024

\* JobStatus (api/models/responses.py)
PENDING == "pending"
PROCESSING == "processing"
COMPLETED == "completed"
FAILED == "failed"
CANCELLED == "cancelled"
JobStatus == {PENDING, PROCESSING, COMPLETED, FAILED, CANCELLED}

VARIABLES
    upload_dir,   \* names of the files in settings.upload_dir, as [stem, suffix]
    output_dir,   \* names of the files in settings.output_dir
    uploads,      \* number of files stored by upload_file so far (uuid source)
    jobs_store,   \* clean.py jobs_store: job id -> job record
    tasks,        \* job id -> frame of its process_cleaning_job coroutine
    running,      \* job whose routine owns the event loop, or NULL
    response      \* the last HTTP response sent by a route handler

job_vars == <<upload_dir, output_dir, uploads, jobs_store, tasks, running, response>>

VARIABLES
    limiter,           \* the RateLimiter instance: [max_requests, period_seconds]
    clock,             \* datetime.now(), in ticks of 1/TicksPerSecond second
    rate_limit_store,  \* rate_limit.py rate_limit_store: identifier -> <<window_start, request_count>>
    rate_call,         \* the last check_rate_limit call: its identifier, instant and outcome
    window             \* per identifier: start of its current window, calls and accepted calls in it

rate_vars == <<limiter, clock, rate_limit_store, rate_call, window>>

VARIABLES
    api_keys_store,    \* auth.py api_keys_store: sha256 of key -> metadata
    auth_call,         \* the last call into auth.py and its result
    issued,            \* raw keys returned by generate_api_key so far
    revoked,           \* raw keys whose revoke_api_key call returned True
    presented          \* raw key not revoked -> validate_api_key calls that presented it since generate_api_key returned it

auth_vars == <<api_keys_store, auth_call, issued, revoked, presented>>

VARIABLES
    jobs_dir,          \* batch_service.py JOBS_DIR: batch job id -> content of <job_id>.json
    batch_task,        \* frame of the running BatchService.create_clean_job call
    batch_call         \* the last value returned by a BatchService method

batch_vars == <<jobs_dir, batch_task, batch_call>>

VARIABLES
    audit_dir,         \* audit_logger.py log_dir: file id -> lines of <file_id>_audit.jsonl
    audit_call,        \* the last call of an AuditLogger method and what it returned or raised
    logged             \* file id -> entries returned by log_transformation so far

audit_vars == <<audit_dir, audit_call, logged>>

\* the state of the services beside the job routes and the middleware
VARIABLES
    validator,         \* a DataValidator and its validate(df) call
    engagement_call,   \* one _calculate_engagement_level call: arguments and result
    profiler           \* one CustomerProfiler.profile_customers(df) call

library_vars == <<validator, engagement_call, profiler>>

VARIABLE
    http               \* the request on its way through the middleware stack of main.py

service_vars == <<batch_vars, audit_vars, library_vars, http>>

vars == <<job_vars, rate_vars, auth_vars, service_vars>>

\* ---- inputs -------------------------------------------------------------
\* Names a client may give an uploaded file, and what Path(name).suffix is.
Filenames == {"data.csv", "DATA.CSV", "notes.txt"}
Suffix(name) ==
    CASE name = "data.csv" -> ".csv"
      [] name = "DATA.CSV" -> ".CSV"
      [] name = "notes.txt" -> ".txt"

\* str.lower() on the suffixes above
Lower(s) == IF s = ".CSV" THEN ".csv" ELSE s

\* Byte lengths of uploaded contents
Sizes == {0, max_size_bytes - 1, max_size_bytes, max_size_bytes + 1}

\* str(uuid.uuid4()): a fresh identifier per call
FileId(n) == "f" \o ToString(n)
JobId(n) == "j" \o ToString(n)
ResultId(job_id) == "r-" \o job_id

FileIdArgs == {FileId(n) : n \in 1..MaxUploads} \cup {"no-such-file"}
JobIdArgs == {JobId(n) : n \in 1..MaxJobs} \cup {"no-such-job"}

Range(s) == {s[i] : i \in DOMAIN s}

\* A pathlib.Path inside a storage directory; NOPATH is "file_path = None"
NOPATH == [stem |-> NULL, suffix |-> NULL]

\* for ext in settings.allowed_extensions: candidate = dir / f"{id}{ext}";
\* if candidate.exists(): ... break        (NOPATH when no candidate exists)
find_file_by_id(file_id, directory) ==
    LET hits == {i \in DOMAIN allowed_extensions :
                    [stem |-> file_id, suffix |-> allowed_extensions[i]] \in directory}
    IN  IF hits = {} THEN NOPATH
        ELSE LET first == CHOOSE i \in hits : \A k \in hits : i <= k
             IN  [stem |-> file_id, suffix |-> allowed_extensions[first]]

Respond(op, code) == response' = [op |-> op, code |-> code]

\* ---- api/routes/upload.py ----------------------------------------------
\* upload_file that saves the content before it checks the size
upload_file_WriteFirst(filename, size) ==
    /\ running = NULL
    /\ LET file_extension == Lower(Suffix(filename))
           file_id == FileId(uploads + 1)
       IN  IF file_extension \notin Range(allowed_extensions)
           THEN /\ Respond("upload", 400)
                /\ UNCHANGED <<upload_dir, uploads>>
           ELSE /\ uploads < MaxUploads
                /\ upload_dir' = upload_dir \cup {[stem |-> file_id, suffix |-> file_extension]}
                /\ uploads' = uploads + 1
                /\ Respond("upload", IF size > max_size_bytes THEN 413 ELSE 200)
    /\ UNCHANGED <<output_dir, jobs_store, tasks, running>>

\* lines 19-75
upload_file(filename, size) ==
    /\ running = NULL
    /\ LET file_extension == Lower(Suffix(filename))
           file_id == FileId(uploads + 1)
       IN  IF file_extension \notin Range(allowed_extensions)
           THEN /\ Respond("upload", 400)
                /\ UNCHANGED <<upload_dir, uploads>>
           ELSE IF size > max_size_bytes
           THEN /\ Respond("upload", 413)
                /\ UNCHANGED <<upload_dir, uploads>>
           ELSE /\ uploads < MaxUploads
                /\ upload_dir' = upload_dir \cup {[stem |-> file_id, suffix |-> file_extension]}
                /\ uploads' = uploads + 1
                /\ Respond("upload", 200)
    /\ UNCHANGED <<output_dir, jobs_store, tasks, running>>

get_file_info(file_id) ==
    /\ running = NULL
    /\ IF find_file_by_id(file_id, upload_dir) = NOPATH
       THEN Respond("get_file_info", 404)
       ELSE Respond("get_file_info", 200)
    /\ UNCHANGED <<upload_dir, output_dir, uploads, jobs_store, tasks, running>>

\* delete_file that answers 200 and leaves the file where it is
delete_file_KeepFile(file_id) ==
    /\ running = NULL
    /\ LET file_path == find_file_by_id(file_id, upload_dir)
       IN  IF file_path = NOPATH
           THEN /\ Respond("delete_file", 404)
                /\ UNCHANGED upload_dir
           ELSE /\ UNCHANGED upload_dir
                /\ Respond("delete_file", 200)
    /\ UNCHANGED <<output_dir, uploads, jobs_store, tasks, running>>

\* lines 130-161
delete_file(file_id) ==
    /\ running = NULL
    /\ LET file_path == find_file_by_id(file_id, upload_dir)
       IN  IF file_path = NOPATH
           THEN /\ Respond("delete_file", 404)
                /\ UNCHANGED upload_dir
           ELSE /\ upload_dir' = upload_dir \ {file_path}
                /\ Respond("delete_file", 200)
    /\ UNCHANGED <<output_dir, uploads, jobs_store, tasks, running>>

\* ---- api/routes/clean.py -----------------------------------------------
\* CleanRequest as far as the routes read it
Requests == [file_id : FileIdArgs, validate_after : BOOLEAN]

create_cleaning_job(request) ==
    /\ running = NULL
    /\ LET file_path == find_file_by_id(request.file_id, upload_dir)
           job_id == JobId(Cardinality(DOMAIN jobs_store) + 1)
           job_data == [job_id |-> job_id,
                        status |-> PENDING,
                        created_at |-> TS,
                        started_at |-> NULL,
                        completed_at |-> NULL,
                        file_id |-> request.file_id,
                        file_path |-> file_path,
                        request |-> request,
                        result_file_id |-> NULL,
                        error |-> NULL,
                        progress |-> 0,
                        report |-> NULL]
       IN  IF file_path = NOPATH
           THEN /\ Respond("create_cleaning_job", 404)
                /\ UNCHANGED <<jobs_store, tasks>>
           ELSE /\ Cardinality(DOMAIN jobs_store) < MaxJobs
                /\ jobs_store' = (job_id :> job_data) @@ jobs_store
                \* background_tasks.add_task(process_cleaning_job, job_id, str(file_path), request)
                /\ tasks' = (job_id :> [pc |-> "scheduled",
                                        file_path |-> file_path,
                                        request |-> request,
                                        result_file_id |-> NULL,
                                        exc |-> NULL]) @@ tasks
                /\ Respond("create_cleaning_job", 200)
    /\ UNCHANGED <<upload_dir, output_dir, uploads, running>>

\* jobs_store[job_id][field] = value
SetField(job_id, field, value) ==
    jobs_store' = [jobs_store EXCEPT ![job_id][field] = value]

Goto(job_id, label) == tasks' = [tasks EXCEPT ![job_id].pc = label]

\* str(e) of an exception raised inside pandas or the engine
ENGINE_ERROR == "engine error"

\* an exception e leaves the try block: control passes to "except Exception as e"
Raise(job_id, text) == tasks' = [tasks EXCEPT ![job_id].pc = "except", ![job_id].exc = text]

Frame == <<upload_dir, output_dir, uploads, running, response>>

\* The event loop starts the scheduled coroutine: line 104
\* a routine that returns at once when it finds its job cancelled
SetProcessing_SkipCancelled(job_id) ==
    /\ running = NULL
    /\ job_id \in DOMAIN tasks
    /\ tasks[job_id].pc = "scheduled"
    /\ IF jobs_store[job_id].status = CANCELLED
       THEN /\ Goto(job_id, "returned")
            /\ UNCHANGED <<jobs_store, running>>
       ELSE /\ running' = job_id
            /\ SetField(job_id, "status", PROCESSING)
            /\ Goto(job_id, "started_at")
    /\ UNCHANGED <<upload_dir, output_dir, uploads, response>>

\* line 104
SetProcessing(job_id) ==
    /\ running = NULL
    /\ job_id \in DOMAIN tasks
    /\ tasks[job_id].pc = "scheduled"
    /\ running' = job_id
    /\ SetField(job_id, "status", PROCESSING)
    /\ Goto(job_id, "started_at")
    /\ UNCHANGED <<upload_dir, output_dir, uploads, response>>

\* line 105
SetStartedAt(job_id) ==
    /\ running = job_id
    /\ tasks[job_id].pc = "started_at"
    /\ SetField(job_id, "started_at", TS)
    /\ Goto(job_id, "progress")
    /\ UNCHANGED Frame

\* line 106
SetProgress10(job_id) ==
    /\ running = job_id
    /\ tasks[job_id].pc = "progress"
    /\ SetField(job_id, "progress", 10)
    /\ Goto(job_id, "load")
    /\ UNCHANGED Frame

\* A call of the engine that either returns, and then the progress checkpoint
\* is stored, or raises.
Stage(job_id, label, next, checkpoint, text) ==
    /\ running = job_id
    /\ tasks[job_id].pc = label
    /\ \/ /\ SetField(job_id, "progress", checkpoint)
          /\ Goto(job_id, next)
       \/ /\ Raise(job_id, text)
          /\ UNCHANGED jobs_store
    /\ UNCHANGED Frame

\* LoadData whose read_file does not look whether the file exists
LoadData_NoExistsCheck(job_id) ==
    /\ running = job_id
    /\ tasks[job_id].pc = "load"
    /\ LET path == tasks[job_id].file_path
       IN  IF Lower(path.suffix) \notin SUPPORTED_FORMATS
           THEN /\ Raise(job_id, "Unsupported file format")
                /\ UNCHANGED jobs_store
           ELSE \/ /\ SetField(job_id, "progress", 20)
                   /\ Goto(job_id, "profile_before")
                \/ /\ Raise(job_id, ENGINE_ERROR)
                   /\ UNCHANGED jobs_store
    /\ UNCHANGED Frame

\* lines 111-112: DataConnector.read_file(file_path)
LoadData(job_id) ==
    /\ running = job_id
    /\ tasks[job_id].pc = "load"
    /\ LET path == tasks[job_id].file_path
       IN  IF path \notin upload_dir
           THEN /\ Raise(job_id, "File not found")
                /\ UNCHANGED jobs_store
           ELSE IF Lower(path.suffix) \notin SUPPORTED_FORMATS
           THEN /\ Raise(job_id, "Unsupported file format")
                /\ UNCHANGED jobs_store
           ELSE \/ /\ SetField(job_id, "progress", 20)
                   /\ Goto(job_id, "profile_before")
                \/ /\ Raise(job_id, ENGINE_ERROR)
                   /\ UNCHANGED jobs_store
    /\ UNCHANGED Frame

\* ProfileBefore that stores 30 where line 118 stores 40
ProfileBefore_Stores30(job_id) == Stage(job_id, "profile_before", "clean", 30, ENGINE_ERROR)

\* lines 115-118
ProfileBefore(job_id) == Stage(job_id, "profile_before", "clean", 40, ENGINE_ERROR)

\* lines 121-124
CleanData(job_id) == Stage(job_id, "clean", "profile_after", 70, ENGINE_ERROR)

\* lines 127-129
ProfileAfter(job_id) == Stage(job_id, "profile_after", "validate", 80, ENGINE_ERROR)

\* lines 132-138: the validator runs only if request.validate_after
Validate(job_id) ==
    /\ running = job_id
    /\ tasks[job_id].pc = "validate"
    /\ \/ /\ SetField(job_id, "progress", 90)
          /\ Goto(job_id, "write")
       \/ /\ tasks[job_id].request.validate_after
          /\ Raise(job_id, ENGINE_ERROR)
          /\ UNCHANGED jobs_store
    /\ UNCHANGED Frame

\* lines 141-144: DataConnector.write_file(df_clean, output_path).  A writer
\* that raises may or may not have created the file already.
SaveCleaned(job_id) ==
    /\ running = job_id
    /\ tasks[job_id].pc = "write"
    /\ LET result_file_id == ResultId(job_id)
           file_ext == tasks[job_id].file_path.suffix
           output_path == [stem |-> result_file_id, suffix |-> file_ext]
       IN  \/ /\ output_dir' = output_dir \cup {output_path}
              /\ tasks' = [tasks EXCEPT ![job_id].pc = "report",
                                        ![job_id].result_file_id = result_file_id]
           \/ /\ output_dir' \in {output_dir, output_dir \cup {output_path}}
              /\ tasks' = [tasks EXCEPT ![job_id].pc = "except",
                                        ![job_id].result_file_id = result_file_id,
                                        ![job_id].exc = ENGINE_ERROR]
    /\ UNCHANGED <<upload_dir, uploads, jobs_store, running, response>>

\* lines 147-156: APICleaningReport(...) validates its arguments
BuildReport(job_id) ==
    /\ running = job_id
    /\ tasks[job_id].pc = "report"
    /\ \/ Goto(job_id, "complete")
       \/ Raise(job_id, ENGINE_ERROR)
    /\ UNCHANGED <<upload_dir, output_dir, uploads, jobs_store, running, response>>

\* Complete that forgets to store the result file id
Complete_NoResult(job_id) ==
    /\ running = job_id
    /\ tasks[job_id].pc = "complete"
    /\ jobs_store' = [jobs_store EXCEPT ![job_id].status = COMPLETED,
                                        ![job_id].completed_at = TS,
                                        ![job_id].progress = 100,
                                        ![job_id].report = "report"]
    /\ Goto(job_id, "returned")
    /\ running' = NULL
    /\ UNCHANGED <<upload_dir, output_dir, uploads, response>>

\* Complete that forgets to store the report
Complete_NoReport(job_id) ==
    /\ running = job_id
    /\ tasks[job_id].pc = "complete"
    /\ jobs_store' = [jobs_store EXCEPT ![job_id].status = COMPLETED,
                                        ![job_id].completed_at = TS,
                                        ![job_id].result_file_id = tasks[job_id].result_file_id,
                                        ![job_id].progress = 100]
    /\ Goto(job_id, "returned")
    /\ running' = NULL
    /\ UNCHANGED <<upload_dir, output_dir, uploads, response>>

\* lines 159-165
Complete(job_id) ==
    /\ running = job_id
    /\ tasks[job_id].pc = "complete"
    /\ jobs_store' = [jobs_store EXCEPT ![job_id].status = COMPLETED,
                                        ![job_id].completed_at = TS,
                                        ![job_id].result_file_id = tasks[job_id].result_file_id,
                                        ![job_id].progress = 100,
                                        ![job_id].report = "report"]
    /\ Goto(job_id, "returned")
    /\ running' = NULL
    /\ UNCHANGED <<upload_dir, output_dir, uploads, response>>

\* Except that leaves the progress where the failing step found it
Except_KeepProgress(job_id) ==
    /\ running = job_id
    /\ tasks[job_id].pc = "except"
    /\ jobs_store' = [jobs_store EXCEPT ![job_id].status = FAILED,
                                        ![job_id].completed_at = TS,
                                        ![job_id].error = tasks[job_id].exc]
    /\ Goto(job_id, "handled")
    /\ running' = NULL
    /\ UNCHANGED <<upload_dir, output_dir, uploads, response>>

\* lines 169-176
Except(job_id) ==
    /\ running = job_id
    /\ tasks[job_id].pc = "except"
    /\ jobs_store' = [jobs_store EXCEPT ![job_id].status = FAILED,
                                        ![job_id].completed_at = TS,
                                        ![job_id].error = tasks[job_id].exc,
                                        ![job_id].progress = 0]
    /\ Goto(job_id, "handled")
    /\ running' = NULL
    /\ UNCHANGED <<upload_dir, output_dir, uploads, response>>

process_cleaning_job(job_id) ==
    \/ SetProcessing(job_id)
    \/ SetStartedAt(job_id)
    \/ SetProgress10(job_id)
    \/ LoadData(job_id)
    \/ ProfileBefore(job_id)
    \/ CleanData(job_id)
    \/ ProfileAfter(job_id)
    \/ Validate(job_id)
    \/ SaveCleaned(job_id)
    \/ BuildReport(job_id)
    \/ Complete(job_id)
    \/ Except(job_id)

ReadOnly == UNCHANGED <<upload_dir, output_dir, uploads, jobs_store, tasks, running>>

get_job_status_code(job_id) ==
    IF job_id \notin DOMAIN jobs_store THEN 404 ELSE 200

\* get_job_status answered while a routine is between two of its statements,
\* as it would be if the routine gave the event loop away
get_job_status_MidRoutine(job_id) ==
    /\ Respond("get_job_status", get_job_status_code(job_id))
    /\ ReadOnly

\* lines 179-201
get_job_status(job_id) ==
    /\ running = NULL
    /\ Respond("get_job_status", get_job_status_code(job_id))
    /\ ReadOnly

get_job_report_code(job_id) ==
    IF job_id \notin DOMAIN jobs_store THEN 404
    ELSE IF jobs_store[job_id].status # COMPLETED THEN 400
    ELSE IF jobs_store[job_id].report = NULL THEN 404
    ELSE 200

get_job_report(job_id) ==
    /\ running = NULL
    /\ Respond("get_job_report", get_job_report_code(job_id))
    /\ ReadOnly

download_cleaned_file_code(job_id) ==
    IF job_id \notin DOMAIN jobs_store THEN 404
    ELSE IF jobs_store[job_id].status # COMPLETED THEN 400
    ELSE IF jobs_store[job_id].result_file_id = NULL THEN 404
    ELSE IF find_file_by_id(jobs_store[job_id].result_file_id, output_dir) = NOPATH THEN 404
    ELSE 200

download_cleaned_file(job_id) ==
    /\ running = NULL
    /\ Respond("download_cleaned_file", download_cleaned_file_code(job_id))
    /\ ReadOnly

\* cancel_job without the test for a terminal status
cancel_job_Anytime(job_id) ==
    /\ running = NULL
    /\ IF job_id \notin DOMAIN jobs_store
       THEN /\ Respond("cancel_job", 404)
            /\ UNCHANGED jobs_store
       ELSE /\ jobs_store' = [jobs_store EXCEPT ![job_id].status = CANCELLED,
                                                ![job_id].completed_at = TS]
            /\ Respond("cancel_job", 200)
    /\ UNCHANGED <<upload_dir, output_dir, uploads, tasks, running>>

\* cancel_job that also stores an error text on the job it cancels
cancel_job_SetsError(job_id) ==
    /\ running = NULL
    /\ IF job_id \notin DOMAIN jobs_store
       THEN /\ Respond("cancel_job", 404)
            /\ UNCHANGED jobs_store
       ELSE IF jobs_store[job_id].status \in {COMPLETED, FAILED}
       THEN /\ Respond("cancel_job", 400)
            /\ UNCHANGED jobs_store
       ELSE /\ jobs_store' = [jobs_store EXCEPT ![job_id].status = CANCELLED,
                                                ![job_id].completed_at = TS,
                                                ![job_id].error = "cancelled"]
            /\ Respond("cancel_job", 200)
    /\ UNCHANGED <<upload_dir, output_dir, uploads, tasks, running>>

\* lines 283-307
cancel_job(job_id) ==
    /\ running = NULL
    /\ IF job_id \notin DOMAIN jobs_store
       THEN /\ Respond("cancel_job", 404)
            /\ UNCHANGED jobs_store
       ELSE IF jobs_store[job_id].status \in {COMPLETED, FAILED}
       THEN /\ Respond("cancel_job", 400)
            /\ UNCHANGED jobs_store
       ELSE /\ jobs_store' = [jobs_store EXCEPT ![job_id].status = CANCELLED,
                                                ![job_id].completed_at = TS]
            /\ Respond("cancel_job", 200)
    /\ UNCHANGED <<upload_dir, output_dir, uploads, tasks, running>>

\* ---- api/middleware/rate_limit.py --------------------------------------
\* RateLimiter.__init__: "requests or settings.rate_limit_requests" keeps a
\* positive argument as it is.
RateLimiter(requests, period) == [max_requests |-> requests, period_seconds |-> period]

\* timedelta(seconds = n) in ticks
Seconds(n) == n * TicksPerSecond

\* int(delta.total_seconds()) of a non-negative timedelta: the whole seconds in it
WholeSeconds(delta) == delta \div TicksPerSecond

\* What a request shows the limiter: its X-API-Key header and its peer address
ApiKeyHeaders == {NULL, "", "refyne_abcdefghiJKLMNOP"}
ClientHosts == {"10.0.0.1"}
RateRequests == [api_key : ApiKeyHeaders, client_host : ClientHosts]

\* api_key[:16]
First16(api_key) == IF api_key = "refyne_abcdefghiJKLMNOP" THEN "refyne_abcdefghi" ELSE api_key

_get_identifier(request) ==
    IF request.api_key \notin {NULL, ""}
    THEN "key:" \o First16(request.api_key)
    ELSE IF request.client_host # NULL
         THEN "ip:" \o request.client_host
         ELSE "ip:unknown"

\* _clean_old_entries that drops every entry, whatever its age
_clean_old_entries_DropAll(now) ==
    LET expired == DOMAIN rate_limit_store
    IN  [key \in DOMAIN rate_limit_store \ expired |-> rate_limit_store[key]]

\* the store without the entries whose window started more than 2 periods ago
_clean_old_entries(now) ==
    LET expired == {key \in DOMAIN rate_limit_store :
                       now - rate_limit_store[key][1] > Seconds(limiter.period_seconds * 2)}
    IN  [key \in DOMAIN rate_limit_store \ expired |-> rate_limit_store[key]]

\* The window of an identifier as a client counts it: it starts with the
\* identifier's first call and with the first call at least one period after
\* the start of the window before.
Restarts(identifier, now) ==
    IF identifier \notin DOMAIN window
    THEN TRUE
    ELSE now - window[identifier].start >= Seconds(limiter.period_seconds)

Counted(identifier, now, accepted) ==
    LET one == IF accepted THEN 1 ELSE 0
    IN  window' = IF Restarts(identifier, now)
                  THEN (identifier :> [start |-> now, calls |-> 1, accepted |-> one]) @@ window
                  ELSE [window EXCEPT ![identifier].calls = @ + 1,
                                      ![identifier].accepted = @ + one]

\* return {...} of an accepted call
Accept(identifier, now, before, remaining, reset_at) ==
    /\ rate_call' = [identifier |-> identifier, at |-> now, before |-> before,
                     code |-> 200, requests_remaining |-> remaining,
                     retry_after_seconds |-> -1, reset_at |-> reset_at]
    /\ Counted(identifier, now, TRUE)

\* raise HTTPException(429, ...)
Reject(identifier, now, before, retry_after, reset_at) ==
    /\ rate_call' = [identifier |-> identifier, at |-> now, before |-> before,
                     code |-> 429, requests_remaining |-> 0,
                     retry_after_seconds |-> retry_after, reset_at |-> reset_at]
    /\ Counted(identifier, now, FALSE)

\* line 94 with ">" for ">=": a call exactly one period after the start stays in the window
WindowElapsed_Late(time_since_start, period) == time_since_start > period

\* line 94: if time_since_start >= self.period_seconds
WindowElapsed(time_since_start, period) == time_since_start >= period

\* line 103 with ">" for ">=": one call more than the cap passes
LimitExceeded_OffByOne(request_count, max_requests) == request_count > max_requests

\* line 103: if request_count >= self.max_requests
LimitExceeded(request_count, max_requests) == request_count >= max_requests

check_rate_limit(request) ==
    LET identifier == _get_identifier(request)
        now == clock
        store == IF Cardinality(DOMAIN rate_limit_store) > 1000
                 THEN _clean_old_entries(now)
                 ELSE rate_limit_store
        max_requests == limiter.max_requests
        period == Seconds(limiter.period_seconds)
    IN  /\ IF Restarts(identifier, now) THEN TRUE ELSE window[identifier].calls < MaxCalls
        /\ IF identifier \notin DOMAIN store
           THEN /\ rate_limit_store' = (identifier :> <<now, 1>>) @@ store
                /\ Accept(identifier, now, <<>>, max_requests - 1, now + period)
           ELSE LET window_start == store[identifier][1]
                    request_count == store[identifier][2]
                    time_since_start == now - window_start
                    reset_at == window_start + period
                IN  IF WindowElapsed(time_since_start, period)
                    THEN /\ rate_limit_store' = [store EXCEPT ![identifier] = <<now, 1>>]
                         /\ Accept(identifier, now, store[identifier], max_requests - 1, now + period)
                    ELSE IF LimitExceeded(request_count, max_requests)
                    THEN /\ rate_limit_store' = store
                         /\ Reject(identifier, now, store[identifier],
                                   WholeSeconds(reset_at - now), reset_at)
                    ELSE /\ rate_limit_store' = [store EXCEPT ![identifier] =
                                                    <<window_start, request_count + 1>>]
                         /\ Accept(identifier, now, store[identifier],
                                   max_requests - (request_count + 1), reset_at)
        /\ UNCHANGED <<limiter, clock>>

\* time passes
Tick ==
    /\ clock < MaxClock
    /\ clock' = clock + 1
    /\ UNCHANGED <<limiter, rate_limit_store, rate_call, window>>

RateInit(requests, period) ==
    /\ limiter = RateLimiter(requests, period)
    /\ clock = 0
    /\ rate_limit_store = <<>>
    /\ rate_call = [identifier |-> NULL, at |-> 0, before |-> <<>>, code |-> 0,
                    requests_remaining |-> 0, retry_after_seconds |-> -1, reset_at |-> 0]
    /\ window = <<>>

\* ---- api/middleware/auth.py --------------------------------------------
api_key_prefix == "refyne_"

\* f"{settings.api_key_prefix}{secrets.token_urlsafe(32)}": the n-th token drawn
NewKey(n) == api_key_prefix \o ToString(n)

\* hashlib.sha256(api_key.encode()).hexdigest(), taken to be free of collisions
hash_api_key(api_key) == "sha256:" \o api_key

\* Keys a caller may present: None, the empty string, every key the service
\* can issue, and one it never issues
PresentedKeys == {NULL, "", "refyne_forged"} \cup {NewKey(n) : n \in 0..MaxKeys}

AuthReturn(op, key, result) == auth_call' = [op |-> op, key |-> key, result |-> result]

generate_api_key(name) ==
    /\ Cardinality(issued) <= MaxKeys
    /\ LET api_key == NewKey(Cardinality(issued))
           key_hash == hash_api_key(api_key)
       IN  /\ api_keys_store' = (key_hash :> [created_at |-> TS, name |-> name,
                                              usage_count |-> 0, last_used |-> NULL])
                                @@ api_keys_store
           /\ issued' = issued \cup {api_key}
           /\ presented' = (api_key :> 0) @@ presented
           /\ AuthReturn("generate_api_key", api_key, "key")
    /\ UNCHANGED revoked

\* one more call of validate_api_key presents api_key
Presented(api_key) ==
    IF api_key \in DOMAIN presented
    THEN /\ presented[api_key] < MaxUsage
         /\ presented' = [presented EXCEPT ![api_key] = @ + 1]
    ELSE UNCHANGED presented

\* validate_api_key that counts a use but leaves last_used as it is
Validated_NoLastUsed(api_key, result) ==
    IF api_key \in {NULL, ""}
    THEN /\ result = FALSE
         /\ UNCHANGED api_keys_store
    ELSE LET key_hash == hash_api_key(api_key)
         IN  IF key_hash \in DOMAIN api_keys_store
             THEN /\ api_keys_store[key_hash].usage_count < MaxUsage
                  /\ result = TRUE
                  /\ api_keys_store' = [api_keys_store EXCEPT
                                            ![key_hash].usage_count = @ + 1]
             ELSE /\ result = FALSE
                  /\ UNCHANGED api_keys_store

\* validate_api_key as a relation between the store before and after and the
\* value it returns
Validated(api_key, result) ==
    IF api_key \in {NULL, ""}
    THEN /\ result = FALSE
         /\ UNCHANGED api_keys_store
    ELSE LET key_hash == hash_api_key(api_key)
         IN  IF key_hash \in DOMAIN api_keys_store
             THEN /\ api_keys_store[key_hash].usage_count < MaxUsage
                  /\ result = TRUE
                  /\ api_keys_store' = [api_keys_store EXCEPT
                                            ![key_hash].usage_count = @ + 1,
                                            ![key_hash].last_used = TS]
             ELSE /\ result = FALSE
                  /\ UNCHANGED api_keys_store

validate_api_key(api_key) ==
    /\ \E result \in BOOLEAN :
          /\ Validated(api_key, result)
          /\ AuthReturn("validate_api_key", api_key, IF result THEN "True" ELSE "False")
    /\ Presented(api_key)
    /\ UNCHANGED <<issued, revoked>>

get_api_key(api_key) ==
    /\ IF api_key \in {NULL, ""}
       THEN /\ AuthReturn("get_api_key", api_key, "401")
            /\ UNCHANGED <<api_keys_store, presented>>
       ELSE /\ \E result \in BOOLEAN :
                  /\ Validated(api_key, result)
                  /\ AuthReturn("get_api_key", api_key, IF result THEN "key" ELSE "403")
            /\ Presented(api_key)
    /\ UNCHANGED <<issued, revoked>>

get_optional_api_key(api_key) ==
    /\ IF api_key \in {NULL, ""}
       THEN /\ AuthReturn("get_optional_api_key", api_key, "None")
            /\ UNCHANGED <<api_keys_store, presented>>
       ELSE /\ \E result \in BOOLEAN :
                  /\ Validated(api_key, result)
                  /\ AuthReturn("get_optional_api_key", api_key, IF result THEN "key" ELSE "None")
            /\ Presented(api_key)
    /\ UNCHANGED <<issued, revoked>>

\* revoke_api_key that reports success but keeps the entry
revoke_api_key_KeepEntry(api_key) ==
    LET key_hash == hash_api_key(api_key)
    IN  IF key_hash \in DOMAIN api_keys_store
        THEN /\ revoked' = revoked \cup {api_key}
             /\ presented' = [key \in DOMAIN presented \ {api_key} |-> presented[key]]
             /\ AuthReturn("revoke_api_key", api_key, "True")
             /\ UNCHANGED <<api_keys_store, issued>>
        ELSE /\ AuthReturn("revoke_api_key", api_key, "False")
             /\ UNCHANGED <<api_keys_store, issued, revoked, presented>>

\* lines 142-159
revoke_api_key(api_key) ==
    LET key_hash == hash_api_key(api_key)
    IN  IF key_hash \in DOMAIN api_keys_store
        THEN /\ api_keys_store' = [h \in DOMAIN api_keys_store \ {key_hash} |-> api_keys_store[h]]
             /\ revoked' = revoked \cup {api_key}
             /\ presented' = [key \in DOMAIN presented \ {api_key} |-> presented[key]]
             /\ AuthReturn("revoke_api_key", api_key, "True")
             /\ UNCHANGED issued
        ELSE /\ AuthReturn("revoke_api_key", api_key, "False")
             /\ UNCHANGED <<api_keys_store, issued, revoked, presented>>

\* api_reload is True by default, so importing auth.py generates the
\* development key
AuthInit ==
    /\ api_keys_store = (hash_api_key(NewKey(0)) :>
                            [created_at |-> TS, name |-> "development",
                             usage_count |-> 0, last_used |-> NULL])
    /\ auth_call = [op |-> "generate_api_key", key |-> NewKey(0), result |-> "key"]
    /\ issued = {NewKey(0)}
    /\ revoked = {}
    /\ presented = (NewKey(0) :> 0)

\* ---- api/services/batch_service.py --------------------------------------
\* The methods class CleanerService defines (api/services/cleaner_service.py)
CleanerService == {"clean_file", "profile_file", "validate_file", "infer_schema"}

\* str() of the AttributeError of a failed attribute lookup
AttributeError(class, name) == "'" \o class \o "' object has no attribute '" \o name \o "'"

\* self.cleaner.clean_data(file_id, aggressive=aggressive), line 114: the
\* attribute is looked up on the CleanerService instance before it is called
clean_data(file_id, aggressive) ==
    IF "clean_data" \in CleanerService
    THEN [raised |-> FALSE, exc |-> NULL, output_file_id |-> "out-" \o file_id]
    ELSE [raised |-> TRUE, exc |-> AttributeError("CleanerService", "clean_data"),
          output_file_id |-> NULL]

BatchJobId(n) == "b" \o ToString(n)
BatchJobIdArgs == {BatchJobId(n) : n \in 1..MaxBatchJobs} \cup {"no-such-job"}

\* the lists of file ids a caller may pass
RECURSIVE SeqsUpTo(_, _)
SeqsUpTo(S, n) ==
    IF n = 0 THEN {<<>>}
    ELSE LET shorter == SeqsUpTo(S, n - 1)
         IN  shorter \cup {Append(s, x) : s \in {t \in shorter : Len(t) = n - 1}, x \in S}
FileIdLists == SeqsUpTo(FileIdArgs, MaxBatchLen)

NOTASK == [pc |-> "idle"]
NOJOB == [job_id |-> NULL]

\* lines 72-93: the job file is written with status pending, then
\* _process_batch_job is called
create_clean_job(file_ids, aggressive) ==
    /\ batch_task = NOTASK
    /\ Cardinality(DOMAIN jobs_dir) < MaxBatchJobs
    /\ LET job_id == BatchJobId(Cardinality(DOMAIN jobs_dir) + 1)
           job_data == [job_id |-> job_id,
                        file_ids |-> file_ids,
                        aggressive |-> aggressive,
                        total_files |-> Len(file_ids),
                        status |-> "pending",
                        created_at |-> TS,
                        completed_files |-> 0,
                        results |-> <<>>]
       IN  /\ jobs_dir' = (job_id :> job_data) @@ jobs_dir
           /\ batch_task' = [pc |-> "read", job_id |-> job_id, file_ids |-> file_ids,
                             aggressive |-> aggressive, job_data |-> NOJOB, next |-> 1]
    /\ UNCHANGED batch_call

\* lines 104-109
ReadJob ==
    /\ batch_task.pc = "read"
    /\ batch_task' = [batch_task EXCEPT
                        !.pc = "loop",
                        !.job_data = [jobs_dir[batch_task.job_id] EXCEPT !.status = "processing"]]
    /\ UNCHANGED <<jobs_dir, batch_call>>

\* the loop body that leaves the loop at the first file that fails
CleanFile_StopAtFailure ==
    /\ batch_task.pc = "loop"
    /\ batch_task.next <= Len(batch_task.file_ids)
    /\ LET file_id == batch_task.file_ids[batch_task.next]
           result == clean_data(file_id, batch_task.aggressive)
           job_data == batch_task.job_data
       IN  IF ~result.raised
           THEN batch_task' = [batch_task EXCEPT
                    !.job_data = [job_data EXCEPT
                        !.results = Append(@, [file_id |-> file_id, status |-> "success",
                                               output_file_id |-> result.output_file_id]),
                        !.completed_files = @ + 1],
                    !.next = @ + 1]
           ELSE batch_task' = [batch_task EXCEPT
                    !.job_data = [job_data EXCEPT
                        !.results = Append(@, [file_id |-> file_id, status |-> "failed",
                                               error |-> result.exc])],
                    !.next = Len(batch_task.file_ids) + 1]
    /\ UNCHANGED <<jobs_dir, batch_call>>

\* the loop body that also saves the job file after every file
CleanFile_SavesEachTurn ==
    /\ batch_task.pc = "loop"
    /\ batch_task.next <= Len(batch_task.file_ids)
    /\ LET file_id == batch_task.file_ids[batch_task.next]
           result == clean_data(file_id, batch_task.aggressive)
           job_data == batch_task.job_data
           outcome == IF ~result.raised
                      THEN [job_data EXCEPT
                              !.results = Append(@, [file_id |-> file_id, status |-> "success",
                                                     output_file_id |-> result.output_file_id]),
                              !.completed_files = @ + 1]
                      ELSE [job_data EXCEPT
                              !.results = Append(@, [file_id |-> file_id, status |-> "failed",
                                                     error |-> result.exc])]
       IN  /\ batch_task' = [batch_task EXCEPT !.job_data = outcome, !.next = @ + 1]
           /\ jobs_dir' = [jobs_dir EXCEPT ![batch_task.job_id] = outcome]
    /\ UNCHANGED batch_call

\* lines 111-127: one turn of the loop over file_ids
CleanFile ==
    /\ batch_task.pc = "loop"
    /\ batch_task.next <= Len(batch_task.file_ids)
    /\ LET file_id == batch_task.file_ids[batch_task.next]
           result == clean_data(file_id, batch_task.aggressive)
           job_data == batch_task.job_data
       IN  IF ~result.raised
           THEN batch_task' = [batch_task EXCEPT
                    !.job_data = [job_data EXCEPT
                        !.results = Append(@, [file_id |-> file_id, status |-> "success",
                                               output_file_id |-> result.output_file_id]),
                        !.completed_files = @ + 1],
                    !.next = @ + 1]
           ELSE batch_task' = [batch_task EXCEPT
                    !.job_data = [job_data EXCEPT
                        !.results = Append(@, [file_id |-> file_id, status |-> "failed",
                                               error |-> result.exc])],
                    !.next = @ + 1]
    /\ UNCHANGED <<jobs_dir, batch_call>>

\* lines 129-134: after the loop the job file is written again
WriteJob ==
    /\ batch_task.pc = "loop"
    /\ batch_task.next > Len(batch_task.file_ids)
    /\ LET job_data == ("completed_at" :> TS) @@
                       [batch_task.job_data EXCEPT !.status = "completed"]
       IN  /\ jobs_dir' = [jobs_dir EXCEPT ![batch_task.job_id] = job_data]
           /\ batch_task' = [batch_task EXCEPT !.pc = "return", !.job_data = job_data]
    /\ UNCHANGED batch_call

\* lines 95-100
ReturnJob ==
    /\ batch_task.pc = "return"
    /\ batch_call' = [op |-> "create_clean_job",
                      result |-> [job_id |-> batch_task.job_id,
                                  total_files |-> Len(batch_task.file_ids),
                                  status |-> "processing"]]
    /\ batch_task' = NOTASK
    /\ UNCHANGED jobs_dir

\* BatchService.get_job_status, lines 136-144; create_clean_job is a plain
\* function, so no other call runs on the event loop before it has returned
batch_get_job_status(job_id) ==
    /\ batch_task = NOTASK
    /\ batch_call' = [op |-> "get_job_status",
                      result |-> IF job_id \in DOMAIN jobs_dir THEN jobs_dir[job_id] ELSE NOJOB]
    /\ UNCHANGED <<jobs_dir, batch_task>>

\* BatchService.list_jobs, lines 146-169: the summary of every job file; all
\* created_at stamps are the same instant here, so the summaries are kept as a set
list_jobs ==
    /\ batch_task = NOTASK
    /\ LET jobs == {[job_id |-> jobs_dir[job_id].job_id,
                     status |-> jobs_dir[job_id].status,
                     total_files |-> jobs_dir[job_id].total_files,
                     completed_files |-> jobs_dir[job_id].completed_files,
                     created_at |-> jobs_dir[job_id].created_at] : job_id \in DOMAIN jobs_dir}
       IN  batch_call' = [op |-> "list_jobs",
                          result |-> [total_jobs |-> Cardinality(jobs), jobs |-> jobs]]
    /\ UNCHANGED <<jobs_dir, batch_task>>

BatchInit ==
    /\ jobs_dir = <<>>
    /\ batch_task = NOTASK
    /\ batch_call = [op |-> "none", result |-> NOJOB]

\* ---- src/audit_logger.py ------------------------------------------------
\* A text line of a log file is the sequence of its JSON tokens.
Punctuation == {"{", "}", "[", "]", ":", ","}
Quote(s) == "\"" \o s \o "\""

AuditFileIds == {"f1", "f2"}
ComplianceFlags == {<<>>, <<"PII_DETECTED">>, <<"PII_MASKED">>, <<"PII_DETECTED", "PII_MASKED">>}

\* AuditLogEntry as log_transformation builds it (lines 68-80) for empty
\* frames and no transformation details
AuditLogEntry(file_id, operation, compliance_flags) ==
    [timestamp |-> TS,
     file_id |-> file_id,
     operation |-> operation,
     user_id |-> "system",
     input_hash |-> "sha256",
     output_hash |-> "sha256",
     rows_before |-> 0,
     rows_after |-> 0,
     columns_modified |-> <<>>,
     transformation_details |-> <<>>,
     compliance_flags |-> compliance_flags]

\* json.dumps(..., indent=2) of a list of strings that is the value of a key
\* of the top-level object: [] on the line of the key, else one element per line
DumpList(key, list, comma) ==
    IF list = <<>>
    THEN << <<Quote(key), ":", "[", "]">> \o comma >>
    ELSE << <<Quote(key), ":", "[">> >>
         \o [i \in 1..Len(list) |->
                IF i < Len(list) THEN <<Quote(list[i]), ",">> ELSE <<Quote(list[i])>>]
         \o << <<"]">> \o comma >>

\* lines 32-34: json.dumps(asdict(self), indent=2), as the lines of the text
to_json(entry) ==
    << <<"{">>,
       <<Quote("timestamp"), ":", Quote(entry.timestamp), ",">>,
       <<Quote("file_id"), ":", Quote(entry.file_id), ",">>,
       <<Quote("operation"), ":", Quote(entry.operation), ",">>,
       <<Quote("user_id"), ":", Quote(entry.user_id), ",">>,
       <<Quote("input_hash"), ":", Quote(entry.input_hash), ",">>,
       <<Quote("output_hash"), ":", Quote(entry.output_hash), ",">>,
       <<Quote("rows_before"), ":", ToString(entry.rows_before), ",">>,
       <<Quote("rows_after"), ":", ToString(entry.rows_after), ",">> >>
    \o DumpList("columns_modified", entry.columns_modified, <<",">>)
    \o << <<Quote("transformation_details"), ":", "{", "}", ",">> >>
    \o DumpList("compliance_flags", entry.compliance_flags, <<>>)
    \o << <<"}">> >>

\* json.loads(line), line 106, on the lines to_json writes: the line has to
\* be one whole JSON document, and of those lines only a last list element,
\* a string, is one
json_loads(line) ==
    IF Len(line) = 1 /\ line[1] \notin Punctuation
    THEN [raised |-> FALSE, value |-> line[1]]
    ELSE [raised |-> TRUE, value |-> NULL]

JSONDecodeError == "JSONDecodeError"
TypeError == "TypeError"

\* lines 102-107: the lines are parsed in order; the exception of the first
\* line that json.loads refuses, or that AuditLogEntry(**entry_dict) refuses
\* because json.loads gave a str, leaves the function
RECURSIVE ReadLines(_, _)
ReadLines(lines, entries) ==
    IF lines = <<>> THEN [raised |-> NULL, entries |-> entries]
    ELSE IF json_loads(Head(lines)).raised
    THEN [raised |-> JSONDecodeError, entries |-> entries]
    ELSE [raised |-> TypeError, entries |-> entries]

\* lines 87-109, as a value
AuditTrail(file_id) ==
    IF file_id \notin DOMAIN audit_dir
    THEN [raised |-> NULL, entries |-> <<>>]
    ELSE ReadLines(audit_dir[file_id], <<>>)

AuditReturn(op, file_id, raised, result) ==
    audit_call' = [op |-> op, file_id |-> file_id, raised |-> raised, result |-> result]

\* lines 44-85 with _write_log, lines 204-209: the file is opened in mode 'a'
log_transformation(file_id, operation, compliance_flags) ==
    LET entry == AuditLogEntry(file_id, operation, compliance_flags)
        before == IF file_id \in DOMAIN audit_dir THEN audit_dir[file_id] ELSE <<>>
    IN  /\ Len(logged[file_id]) < MaxLogged
        /\ audit_dir' = (file_id :> (before \o to_json(entry))) @@ audit_dir
        /\ logged' = [logged EXCEPT ![file_id] = Append(@, entry)]
        /\ AuditReturn("log_transformation", file_id, NULL, <<entry>>)

\* lines 87-109
get_audit_trail(file_id) ==
    LET trail == AuditTrail(file_id)
    IN  /\ AuditReturn("get_audit_trail", file_id, trail.raised, trail.entries)
        /\ UNCHANGED <<audit_dir, logged>>

Flags(trail) == UNION {Range(trail[i].compliance_flags) : i \in DOMAIN trail}

\* lines 211-228
_assess_compliance(trail) ==
    LET flags == Flags(trail)
        has_pii == "PII_DETECTED" \in flags
        pii_masked == "PII_MASKED" \in flags
    IN  [gdpr_compliant |-> IF has_pii THEN pii_masked ELSE TRUE,
         sox_compliant |-> Len(trail) > 0,
         audit_trail_complete |-> Len(trail) > 0,
         data_lineage_tracked |-> TRUE,
         pii_handled_correctly |-> IF has_pii THEN pii_masked ELSE TRUE]

\* lines 111-162
generate_compliance_report(file_id) ==
    LET trail == AuditTrail(file_id)
    IN  /\ IF trail.raised # NULL
           THEN AuditReturn("generate_compliance_report", file_id, trail.raised, <<>>)
           ELSE IF trail.entries = <<>>
           THEN AuditReturn("generate_compliance_report", file_id, NULL,
                            [error |-> "No audit trail found"])
           ELSE AuditReturn("generate_compliance_report", file_id, NULL,
                            [file_id |-> file_id,
                             total_transformations |-> Len(trail.entries),
                             compliance_status |-> _assess_compliance(trail.entries)])
        /\ UNCHANGED <<audit_dir, logged>>

AuditInit ==
    /\ audit_dir = <<>>
    /\ logged = [file_id \in AuditFileIds |-> <<>>]
    /\ audit_call = [op |-> "none", file_id |-> NULL, raised |-> NULL, result |-> <<>>]

\* ---- src/validator.py ---------------------------------------------------
\* ValidationLevel
ERROR == "error"
WARNING == "warning"
INFO == "info"
ValidationLevel == {ERROR, WARNING, INFO}

ValidationIssue(level) == [level |-> level, count |-> 1]

\* what the four _validate_* checks may append to self.issues for a table
IssueLists == SeqsUpTo({ValidationIssue(level) : level \in ValidationLevel}, MaxIssues)

IsError(i) == i.level = ERROR
IsWarning(i) == i.level = WARNING
IsInfo(i) == i.level = INFO

\* the report of a validator that leaves the warnings where they are in
\* strict mode
ValidationReport_NoPromotion(issues, strict) ==
    LET errors == SelectSeq(issues, IsError)
        warnings == SelectSeq(issues, IsWarning)
        info == SelectSeq(issues, IsInfo)
    IN  [passed |-> Len(errors) = 0,
         total_issues |-> Len(issues),
         errors |-> errors,
         warnings |-> warnings,
         info |-> info,
         schema_compliant |-> TRUE]

\* lines 91-110 (no schema is given: schema_compliant stays True)
ValidationReport(issues, strict) ==
    LET errors == SelectSeq(issues, IsError)
        warnings == SelectSeq(issues, IsWarning)
        info == SelectSeq(issues, IsInfo)
        strict_errors == IF strict THEN errors \o warnings ELSE errors
    IN  [passed |-> Len(strict_errors) = 0,
         total_issues |-> Len(issues),
         errors |-> strict_errors,
         warnings |-> IF strict THEN <<>> ELSE warnings,
         info |-> info,
         schema_compliant |-> TRUE]

NOREPORT == [passed |-> NULL]

\* lines 65-114: self.issues is emptied, filled by the checks and categorised
validate ==
    /\ validator.report = NOREPORT
    /\ validator' = [validator EXCEPT
                        !.issues = validator.found,
                        !.report = ValidationReport(validator.found, validator.strict)]

\* DataValidator(strict) before validate(df); found is what the checks will
\* find in df
ValidatorInit(found, strict) ==
    validator = [strict |-> strict, found |-> found, issues |-> <<>>, report |-> NOREPORT]

\* ---- src/customer_profiler.py ------------------------------------------
\* Optional numbers: None, or the number in a 1-tuple
None == <<>>
Some(x) == <<x>>
Optional(S) == {None} \cup {Some(x) : x \in S}

\* Python truth of an Optional number, and `x or 0`
Truthy(x) == x # None /\ x[1] # 0
OrZero(x) == IF Truthy(x) THEN x[1] ELSE 0

\* the level of a profiler that asks no NPS of a champion
_calculate_engagement_level_NoNps(engagement_score, days_since_purchase, nps_score) ==
    IF engagement_score = None THEN "moderate"
    ELSE IF engagement_score[1] >= 90 THEN "champion"
    ELSE IF engagement_score[1] >= 80 THEN "active"
    ELSE IF engagement_score[1] >= 60 THEN "moderate"
    ELSE IF engagement_score[1] >= 40 \/ OrZero(days_since_purchase) < 60 THEN "at_risk"
    ELSE "dormant"

\* lines 243-262
_calculate_engagement_level(engagement_score, days_since_purchase, nps_score) ==
    IF engagement_score = None THEN "moderate"
    ELSE IF engagement_score[1] >= 90 /\ OrZero(nps_score) >= 9 THEN "champion"
    ELSE IF engagement_score[1] >= 80 THEN "active"
    ELSE IF engagement_score[1] >= 60 THEN "moderate"
    ELSE IF engagement_score[1] >= 40 \/ OrZero(days_since_purchase) < 60 THEN "at_risk"
    ELSE "dormant"

\* the arguments of one _calculate_engagement_level call
EngagementScores == Optional(0..100)
NpsScores == Optional(0..10)
DaysSincePurchase == Optional({0, 10, 59, 60, 61, 100})

calculate_engagement_level ==
    /\ engagement_call.level = NULL
    /\ engagement_call' = [engagement_call EXCEPT
                        !.level = _calculate_engagement_level(engagement_call.engagement_score,
                                                              engagement_call.days_since_purchase,
                                                              engagement_call.nps_score)]

EngagementInit(engagement_score, days_since_purchase, nps_score) ==
    engagement_call = [engagement_score |-> engagement_score,
                  days_since_purchase |-> days_since_purchase,
                  nps_score |-> nps_score,
                  level |-> NULL]

\* lines 264-288
_calculate_churn_risk(engagement_score, days_since_purchase, support_tickets, nps_score) ==
    LET risk_factors ==
            (IF engagement_score # None /\ engagement_score[1] < 70 THEN 1 ELSE 0)
          + (IF days_since_purchase # None /\ days_since_purchase[1] > 90 THEN 1 ELSE 0)
          + (IF support_tickets # None /\ support_tickets[1] > 5 THEN 1 ELSE 0)
          + (IF nps_score # None /\ nps_score[1] < 7 THEN 1 ELSE 0)
    IN  IF risk_factors >= 3 THEN "high"
        ELSE IF risk_factors >= 2 THEN "medium"
        ELSE "low"

\* A row of the input table, as _get_numeric and _get_date read it: the
\* scores, the support tickets and the age in days of the last purchase,
\* each None when the column is missing or empty.  The rows carry no account
\* value, no customer_since and no notes.
Rows == [engagement_score : Optional({0, 65, 95}),
         nps_score : Optional({5, 9}),
         support_tickets : {None},
         days_since_last_purchase : Optional({100})]
Tables == SeqsUpTo(Rows, MaxRows)

\* lines 138-193 of _generate_insights: profile.get("engagement_score", 0) is
\* None when the key holds None, and None >= 90 raises TypeError; so does
\* profile.get("nps_score", 10) < 7
_generate_insights(profile) ==
    LET engagement == profile.engagement_score
    IN  IF engagement = None THEN [raised |-> TypeError, insights |-> <<>>]
        ELSE IF profile.churn_risk = "high" /\ profile.nps_score = None
        THEN [raised |-> TypeError, insights |-> <<>>]
        ELSE [raised |-> NULL,
              insights |->
                  (IF engagement[1] >= 90 THEN <<"Highly Engaged Customer">>
                   ELSE IF engagement[1] < 70 THEN <<"Low Engagement Warning">>
                   ELSE <<>>)
               \o (IF profile.churn_risk = "high" THEN <<"High Churn Risk">> ELSE <<>>)
               \o (IF profile.nps_score = None THEN <<>>
                   ELSE IF profile.nps_score[1] >= 9 THEN <<"Promoter - Referral Opportunity">>
                   ELSE IF profile.nps_score[1] <= 6 THEN <<"Detractor - Needs Attention">>
                   ELSE <<>>)]

\* lines 39-107; int(x) if x else None keeps a score only if it is not 0
_build_profile(row) ==
    LET profile == [engagement_score |-> IF Truthy(row.engagement_score)
                                         THEN row.engagement_score ELSE None,
                    nps_score |-> IF Truthy(row.nps_score) THEN row.nps_score ELSE None,
                    days_since_last_purchase |-> row.days_since_last_purchase,
                    engagement_level |->
                        _calculate_engagement_level(row.engagement_score,
                                                    row.days_since_last_purchase,
                                                    row.nps_score),
                    churn_risk |->
                        _calculate_churn_risk(row.engagement_score,
                                              row.days_since_last_purchase,
                                              row.support_tickets, row.nps_score)]
        generated == _generate_insights(profile)
    IN  [raised |-> generated.raised,
         profile |-> [engagement_score |-> profile.engagement_score,
                      nps_score |-> profile.nps_score,
                      days_since_last_purchase |-> profile.days_since_last_purchase,
                      engagement_level |-> profile.engagement_level,
                      churn_risk |-> profile.churn_risk,
                      insights |-> generated.insights,
                      raw_data |-> row]]

\* lines 33-35: one turn of the loop over the rows; an exception of
\* _build_profile leaves profile_customers
BuildProfile ==
    /\ ~profiler.done
    /\ Len(profiler.profiles) < Len(profiler.df)
    /\ LET built == _build_profile(profiler.df[Len(profiler.profiles) + 1])
       IN  IF built.raised # NULL
           THEN profiler' = [profiler EXCEPT !.raised = built.raised, !.done = TRUE]
           ELSE profiler' = [profiler EXCEPT !.profiles = Append(@, built.profile)]

\* line 37
ReturnProfiles ==
    /\ ~profiler.done
    /\ Len(profiler.profiles) = Len(profiler.df)
    /\ profiler' = [profiler EXCEPT !.done = TRUE]

\* profile_customers(df) at line 31
ProfilerInit(df) ==
    profiler = [df |-> df, profiles |-> <<>>, raised |-> NULL, done |-> FALSE]

\* ---- api/main.py: the way of a request through the application --------
\* Starlette builds the stack ServerErrorMiddleware > add_process_time_header
\* > CORSMiddleware > ExceptionMiddleware > router.  A handler registered for
\* Exception is the handler of ServerErrorMiddleware; the handlers of
\* HTTPException live in ExceptionMiddleware.

\* the routes of the routers included at lines 85-89 and the root route,
\* with the status codes of the HTTPExceptions their handlers raise
HTTPExceptions ==
    [root |-> {},
     health_check |-> {},
     readiness_check |-> {},
     liveness_check |-> {},
     upload_file |-> {400, 413, 500},
     get_file_info |-> {404, 500},
     delete_file |-> {404, 500},
     create_cleaning_job |-> {404, 500},
     get_job_status |-> {404},
     get_job_report |-> {400, 404},
     download_cleaned_file |-> {400, 404},
     cancel_job |-> {400, 404},
     profile_data |-> {404, 500},
     quick_profile |-> {404, 500},
     get_customer_profiles |-> {404, 500},
     get_customer_profile |-> {404, 500}]
Routes == DOMAIN HTTPExceptions

\* routes whose returned value is validated and serialised against a
\* response_model after the handler has returned, outside its try block
ResponseModelRoutes ==
    {"health_check", "upload_file", "get_file_info", "create_cleaning_job", "get_job_status",
     "get_job_report", "profile_data", "quick_profile", "get_customer_profiles",
     "get_customer_profile"}

\* what the call of a route's endpoint ends in
Outcomes(route) ==
    {[raised |-> NULL, status_code |-> 200]}
    \cup {[raised |-> "HTTPException", status_code |-> code] : code \in HTTPExceptions[route]}
    \cup (IF route \in ResponseModelRoutes
          THEN {[raised |-> "Exception", status_code |-> 0]} ELSE {})

\* line 63: the request enters add_process_time_header
ReceiveRequest(route) ==
    /\ http.stage \in {"idle", "sent"}
    /\ http' = [stage |-> "call_next", route |-> route, raised |-> NULL,
                status_code |-> 0, headers |-> {}]

\* the endpoint of the route runs
Endpoint ==
    /\ http.stage = "call_next"
    /\ \E outcome \in Outcomes(http.route) :
          http' = [http EXCEPT !.stage = "endpoint_done",
                               !.raised = outcome.raised,
                               !.status_code = outcome.status_code,
                               !.headers = IF outcome.raised = NULL
                                           THEN {"content-type"} ELSE {}]

\* ExceptionMiddleware turns an HTTPException into the response of its status
\* code; any other exception passes through it
ExceptionMiddleware ==
    /\ http.stage = "endpoint_done"
    /\ IF http.raised = "HTTPException"
       THEN http' = [http EXCEPT !.stage = "returning", !.raised = NULL,
                                 !.headers = {"content-type"}]
       ELSE http' = [http EXCEPT !.stage = "returning"]

\* lines 64-67: call_next returns the response, or raises what the
\* application raised, and then the header is not set
add_process_time_header ==
    /\ http.stage = "returning"
    /\ IF http.raised = NULL
       THEN http' = [http EXCEPT !.stage = "sent",
                                 !.headers = @ \cup {"X-Process-Time"}]
       ELSE http' = [http EXCEPT !.stage = "unhandled"]

\* lines 71-81: ServerErrorMiddleware sends the handler's JSONResponse
global_exception_handler ==
    /\ http.stage = "unhandled"
    /\ http' = [http EXCEPT !.stage = "sent", !.status_code = 500,
                            !.headers = {"content-type"}]

HttpInit ==
    http = [stage |-> "idle", route |-> NULL, raised |-> NULL,
            status_code |-> 0, headers |-> {}]

\* ---- start-up -----------------------------------------------------------
ServiceInit == BatchInit /\ AuditInit /\ HttpInit

\* no validation, engagement or profiling call is under way
LibraryInit ==
    /\ ValidatorInit(<<>>, FALSE)
    /\ EngagementInit(None, None, None)
    /\ ProfilerInit(<<>>)

JobInit ==
    /\ upload_dir = {}
    /\ output_dir = {}
    /\ uploads = 0
    /\ jobs_store = <<>>
    /\ tasks = <<>>
    /\ running = NULL
    /\ response = [op |-> "none", code |-> 0]

\* The middleware is attached to no route: the job routes leave its stores alone
NoMiddleware == UNCHANGED <<rate_vars, auth_vars, service_vars>>

JobNext ==
    \/ \E filename \in Filenames, size \in Sizes : upload_file(filename, size) /\ NoMiddleware
    \/ \E file_id \in FileIdArgs : get_file_info(file_id) /\ NoMiddleware
    \/ \E file_id \in FileIdArgs : delete_file(file_id) /\ NoMiddleware
    \/ \E request \in Requests : create_cleaning_job(request) /\ NoMiddleware
    \/ \E job_id \in DOMAIN tasks : SetProcessing(job_id) /\ NoMiddleware
    \/ \E job_id \in DOMAIN tasks : SetStartedAt(job_id) /\ NoMiddleware
    \/ \E job_id \in DOMAIN tasks : SetProgress10(job_id) /\ NoMiddleware
    \/ \E job_id \in DOMAIN tasks : LoadData(job_id) /\ NoMiddleware
    \/ \E job_id \in DOMAIN tasks : ProfileBefore(job_id) /\ NoMiddleware
    \/ \E job_id \in DOMAIN tasks : CleanData(job_id) /\ NoMiddleware
    \/ \E job_id \in DOMAIN tasks : ProfileAfter(job_id) /\ NoMiddleware
    \/ \E job_id \in DOMAIN tasks : Validate(job_id) /\ NoMiddleware
    \/ \E job_id \in DOMAIN tasks : SaveCleaned(job_id) /\ NoMiddleware
    \/ \E job_id \in DOMAIN tasks : BuildReport(job_id) /\ NoMiddleware
    \/ \E job_id \in DOMAIN tasks : Complete(job_id) /\ NoMiddleware
    \/ \E job_id \in DOMAIN tasks : Except(job_id) /\ NoMiddleware
    \/ \E job_id \in JobIdArgs : get_job_status(job_id) /\ NoMiddleware
    \/ \E job_id \in JobIdArgs : get_job_report(job_id) /\ NoMiddleware
    \/ \E job_id \in JobIdArgs : download_cleaned_file(job_id) /\ NoMiddleware
    \/ \E job_id \in JobIdArgs : cancel_job(job_id) /\ NoMiddleware

Init == JobInit /\ RateInit(2, 2) /\ AuthInit /\ ServiceInit /\ LibraryInit

\* The HTTP service with its job routes
JobSpec == Init /\ [][JobNext]_vars

\* BackgroundTasks awaits every coroutine it was given once the response is
\* sent, and a coroutine without await runs on until it returns: no routine
\* that can take a step is left waiting for ever
JobFairness ==
    WF_vars(\E job_id \in DOMAIN tasks : process_cleaning_job(job_id) /\ NoMiddleware)

\* The requests that write, and GET /jobs/{id}; the other GET handlers change
\* nothing but the response and are left out
JobFairNext ==
    \/ \E filename \in Filenames, size \in Sizes : upload_file(filename, size) /\ NoMiddleware
    \/ \E file_id \in FileIdArgs : delete_file(file_id) /\ NoMiddleware
    \/ \E request \in Requests : create_cleaning_job(request) /\ NoMiddleware
    \/ \E job_id \in DOMAIN tasks : process_cleaning_job(job_id) /\ NoMiddleware
    \/ \E job_id \in JobIdArgs : get_job_status(job_id) /\ NoMiddleware
    \/ \E job_id \in JobIdArgs : cancel_job(job_id) /\ NoMiddleware

JobFairSpec == Init /\ [][JobFairNext]_vars /\ JobFairness

RateNext ==
    \/ \E request \in RateRequests : check_rate_limit(request) /\ UNCHANGED <<job_vars, auth_vars, service_vars>>
    \/ Tick /\ UNCHANGED <<job_vars, auth_vars, service_vars>>

RateSpecInit ==
    \E requests \in 1..MaxRequests, period \in 1..MaxPeriod :
        JobInit /\ RateInit(requests, period) /\ AuthInit /\ ServiceInit /\ LibraryInit

\* One RateLimiter of any cap and period, called at any instants
RateSpec == RateSpecInit /\ [][RateNext]_vars

\* Other clients: each called check_rate_limit once at instant 0 and not since
OtherClient(n) == "ip:192.168." \o ToString(n \div 250) \o "." \o ToString(n % 250)
Crowds == {999, 1000}
Crowd(size) ==
    [identifier \in {OtherClient(n) : n \in 1..size} |-> <<0, 1>>]

\* the periods short enough for more than two of them to pass before the clock stops
ShortPeriods == {period \in 1..MaxPeriod : Seconds(2 * period) < MaxClock}

\* The store right after a crowd of other clients made their first calls
CrowdedInit ==
    \E requests \in 1..MaxRequests, period \in ShortPeriods, size \in Crowds :
        /\ JobInit /\ AuthInit /\ ServiceInit /\ LibraryInit
        /\ limiter = RateLimiter(requests, period)
        /\ clock = 0
        /\ rate_limit_store = Crowd(size)
        /\ rate_call = [identifier |-> NULL, at |-> 0, before |-> <<>>, code |-> 0,
                        requests_remaining |-> 0, retry_after_seconds |-> -1, reset_at |-> 0]
        /\ window = [identifier \in DOMAIN Crowd(size) |->
                         [start |-> 0, calls |-> 1, accepted |-> 1]]

\* one more client, which sends its key
CrowdedRequests == {request \in RateRequests : request.api_key \notin {NULL, ""}}

CrowdedNext ==
    \/ \E request \in CrowdedRequests : check_rate_limit(request) /\ UNCHANGED <<job_vars, auth_vars, service_vars>>
    \/ Tick /\ UNCHANGED <<job_vars, auth_vars, service_vars>>

\* The limiter with about a thousand tracked clients, where pruning sets in
CrowdedSpec == CrowdedInit /\ [][CrowdedNext]_vars

AuthNext ==
    \/ generate_api_key("default") /\ UNCHANGED <<job_vars, rate_vars, service_vars>>
    \/ \E api_key \in PresentedKeys : validate_api_key(api_key) /\ UNCHANGED <<job_vars, rate_vars, service_vars>>
    \/ \E api_key \in PresentedKeys : get_api_key(api_key) /\ UNCHANGED <<job_vars, rate_vars, service_vars>>
    \/ \E api_key \in PresentedKeys : get_optional_api_key(api_key) /\ UNCHANGED <<job_vars, rate_vars, service_vars>>
    \/ \E api_key \in PresentedKeys \ {NULL} : revoke_api_key(api_key) /\ UNCHANGED <<job_vars, rate_vars, service_vars>>

\* The key store under any sequence of calls
AuthSpec == Init /\ [][AuthNext]_vars

OnlyBatch == UNCHANGED <<job_vars, rate_vars, auth_vars, audit_vars, library_vars, http>>

\* The batch service beside POST /upload; aggressive keeps its default
BatchNext ==
    \/ \E filename \in Filenames, size \in Sizes :
          upload_file(filename, size) /\ batch_task = NOTASK
              /\ UNCHANGED <<rate_vars, auth_vars, service_vars>>
    \/ \E file_ids \in FileIdLists :
          create_clean_job(file_ids, FALSE) /\ OnlyBatch
    \/ ReadJob /\ OnlyBatch
    \/ CleanFile /\ OnlyBatch
    \/ WriteJob /\ OnlyBatch
    \/ ReturnJob /\ OnlyBatch
    \/ \E job_id \in BatchJobIdArgs :
          batch_get_job_status(job_id) /\ OnlyBatch
    \/ list_jobs /\ OnlyBatch

\* BatchService under any sequence of calls
BatchSpec == Init /\ [][BatchNext]_vars

OnlyAudit == UNCHANGED <<job_vars, rate_vars, auth_vars, batch_vars, library_vars, http>>

AuditNext ==
    \/ \E file_id \in AuditFileIds, compliance_flags \in ComplianceFlags :
          log_transformation(file_id, "clean", compliance_flags) /\ OnlyAudit
    \/ \E file_id \in AuditFileIds : get_audit_trail(file_id) /\ OnlyAudit
    \/ \E file_id \in AuditFileIds : generate_compliance_report(file_id) /\ OnlyAudit

\* One AuditLogger under any sequence of calls
AuditSpec == Init /\ [][AuditNext]_vars

Started == JobInit /\ RateInit(2, 2) /\ AuthInit /\ ServiceInit

ValidatorSpecInit ==
    \E found \in IssueLists, strict \in BOOLEAN :
        /\ Started
        /\ ValidatorInit(found, strict)
        /\ EngagementInit(None, None, None)
        /\ ProfilerInit(<<>>)

ValidatorNext ==
    validate /\ UNCHANGED <<job_vars, rate_vars, auth_vars, batch_vars, audit_vars, http,
                            engagement_call, profiler>>

\* DataValidator.validate on any list of issues, in both modes
ValidatorSpec == ValidatorSpecInit /\ [][ValidatorNext]_vars

EngagementSpecInit ==
    \E engagement_score \in EngagementScores, days_since_purchase \in DaysSincePurchase,
       nps_score \in NpsScores :
        /\ Started
        /\ ValidatorInit(<<>>, FALSE)
        /\ EngagementInit(engagement_score, days_since_purchase, nps_score)
        /\ ProfilerInit(<<>>)

EngagementNext ==
    calculate_engagement_level
        /\ UNCHANGED <<job_vars, rate_vars, auth_vars, batch_vars, audit_vars, http,
                       validator, profiler>>

\* _calculate_engagement_level on any arguments
EngagementSpec == EngagementSpecInit /\ [][EngagementNext]_vars

ProfilerSpecInit ==
    \E df \in Tables :
        /\ Started
        /\ ValidatorInit(<<>>, FALSE)
        /\ EngagementInit(None, None, None)
        /\ ProfilerInit(df)

ProfilerNext ==
    \/ BuildProfile /\ UNCHANGED <<job_vars, rate_vars, auth_vars, batch_vars, audit_vars, http,
                                   validator, engagement_call>>
    \/ ReturnProfiles /\ UNCHANGED <<job_vars, rate_vars, auth_vars, batch_vars, audit_vars, http,
                                     validator, engagement_call>>

\* CustomerProfiler.profile_customers on any table
ProfilerSpec == ProfilerSpecInit /\ [][ProfilerNext]_vars

OnlyHttp == UNCHANGED <<job_vars, rate_vars, auth_vars, batch_vars, audit_vars, library_vars>>

HttpNext ==
    \/ \E route \in Routes : ReceiveRequest(route) /\ OnlyHttp
    \/ Endpoint /\ OnlyHttp
    \/ ExceptionMiddleware /\ OnlyHttp
    \/ add_process_time_header /\ OnlyHttp
    \/ global_exception_handler /\ OnlyHttp

\* The middleware stack under any sequence of requests
HttpSpec == Init /\ [][HttpNext]_vars

\* ======================= properties of the job routes ====================
Created(job_id) == job_id \in DOMAIN jobs_store' /\ job_id \notin DOMAIN jobs_store

\* the routine of job_id ran to its last statement and raised nowhere
Returned(job_id) == job_id \in DOMAIN tasks /\ tasks[job_id].pc = "returned"

\* the routine of job_id left through its except clause
Handled(job_id) == job_id \in DOMAIN tasks /\ tasks[job_id].pc = "handled"

C1_Ended ==
    \A job_id \in DOMAIN jobs_store :
        Returned(job_id) =>
            LET job == jobs_store[job_id]
            IN  /\ job.status = COMPLETED
                /\ job.progress = 100
                /\ job.result_file_id # NULL
                /\ [stem |-> job.result_file_id, suffix |-> job.file_path.suffix] \in output_dir
                /\ download_cleaned_file_code(job_id) = 200

\* C1: a job made by POST /clean for an existing upload starts pending, with
\* progress 0 and no result file id; once its routine has returned without
\* raising, the job is completed with progress 100, a result file id, the file
\* {result_file_id}{ext} in the output directory, and its download answers 200.
C1_JobLifecycle ==
    [][/\ \A job_id \in JobIdArgs :
             Created(job_id) =>
                 /\ jobs_store'[job_id].status = PENDING
                 /\ jobs_store'[job_id].progress = 0
                 /\ jobs_store'[job_id].result_file_id = NULL
                 /\ jobs_store'[job_id].file_path \in upload_dir
       /\ C1_Ended']_vars

C1_Witness ==
    \E job_id \in DOMAIN jobs_store :
        /\ Returned(job_id)
        /\ jobs_store[job_id].status = COMPLETED
        /\ response = [op |-> "download_cleaned_file", code |-> 200]

C2_Failed ==
    \A job_id \in DOMAIN jobs_store :
        Handled(job_id) =>
            LET job == jobs_store[job_id]
            IN  /\ job.status = FAILED
                /\ job.progress = 0
                /\ job.completed_at # NULL
                /\ job.error # NULL
                /\ job.error = tasks[job_id].exc

\* C2: when a step of the routine raises, the routine ends in its except
\* clause, and from then on the job is failed with progress 0, a completed_at
\* stamp and the exception text as error; the step that raises and the except
\* clause send no response, the failure shows only in the job record.
C2_FailureRecorded ==
    [][/\ C2_Failed'
       /\ \A job_id \in DOMAIN tasks :
             tasks[job_id].pc = "except" =>
                 /\ Handled(job_id)'
                 /\ response' = response
       /\ \A job_id \in DOMAIN tasks :
             (tasks[job_id].pc # "except" /\ tasks'[job_id].pc = "except") =>
                 /\ tasks'[job_id].exc # NULL
                 /\ response' = response]_vars

C2_Witness ==
    \E job_id \in DOMAIN jobs_store :
        /\ Handled(job_id)
        /\ jobs_store[job_id].status = FAILED
        /\ jobs_store[job_id].error = ENGINE_ERROR
        /\ response = [op |-> "get_job_status", code |-> 200]

StatusEdges ==
    {<<PENDING, PROCESSING>>, <<PROCESSING, COMPLETED>>, <<PROCESSING, FAILED>>,
     <<PENDING, CANCELLED>>, <<PROCESSING, CANCELLED>>}

\* C3: the status of a job changes only along pending -> processing,
\* processing -> completed, processing -> failed, pending -> cancelled and
\* processing -> cancelled; a cancelled job stays cancelled.
C3_StatusEdges ==
    [][\A job_id \in DOMAIN jobs_store :
          jobs_store'[job_id].status # jobs_store[job_id].status =>
              <<jobs_store[job_id].status, jobs_store'[job_id].status>> \in StatusEdges]_vars

\* C4: DELETE /jobs/{id} makes a pending or processing job cancelled and stamps
\* completed_at; for a completed or failed job it answers 400 and for an
\* unknown id 404, and in both cases the job store stays as it was.
C4_Cancel ==
    [][\A job_id \in JobIdArgs :
          cancel_job(job_id) =>
              IF job_id \notin DOMAIN jobs_store
              THEN response'.code = 404 /\ jobs_store' = jobs_store
              ELSE /\ jobs_store[job_id].status \in {COMPLETED, FAILED} =>
                          response'.code = 400 /\ jobs_store' = jobs_store
                   /\ jobs_store[job_id].status \in {PENDING, PROCESSING} =>
                          /\ response'.code = 200
                          /\ jobs_store'[job_id].status = CANCELLED
                          /\ jobs_store'[job_id].completed_at # NULL]_vars

C4_Witness ==
    \E job_id \in DOMAIN jobs_store :
        /\ jobs_store[job_id].status = CANCELLED
        /\ jobs_store[job_id].completed_at # NULL
        /\ jobs_store[job_id].started_at = NULL
        /\ response = [op |-> "cancel_job", code |-> 200]

\* C5: a completed job has progress 100, a result file id and a report, so its
\* report request answers 200; GET /jobs/{id}/report answers 400 exactly for the
\* jobs that exist and are not completed.
C5_CompletedHasReport ==
    /\ \A job_id \in DOMAIN jobs_store :
          jobs_store[job_id].status = COMPLETED =>
              /\ jobs_store[job_id].progress = 100
              /\ jobs_store[job_id].result_file_id # NULL
              /\ jobs_store[job_id].report # NULL
              /\ get_job_report_code(job_id) = 200
    /\ \A job_id \in JobIdArgs :
          get_job_report_code(job_id) = 400 <=>
              (job_id \in DOMAIN jobs_store /\ jobs_store[job_id].status # COMPLETED)

C5_Witness ==
    \E job_id \in DOMAIN jobs_store :
        /\ jobs_store[job_id].status = COMPLETED
        /\ response = [op |-> "get_job_report", code |-> 200]

\* ======================= properties of the rate limiter ==================
Min(a, b) == IF a <= b THEN a ELSE b

\* the last call came from identifier and fell into its current window
LastCallOf(identifier) ==
    /\ rate_call.identifier = identifier
    /\ rate_call.at >= window[identifier].start

\* C6: of the calls an identifier makes between one window start and the next,
\* the first N are accepted and no other: at most N are accepted, and a call
\* after the N-th in the same window is rejected with 429.
C6_AtMostNPerWindow ==
    \A identifier \in DOMAIN window :
        /\ window[identifier].accepted <= limiter.max_requests
        /\ window[identifier].accepted = Min(window[identifier].calls, limiter.max_requests)
        /\ (LastCallOf(identifier) /\ window[identifier].calls > limiter.max_requests) =>
               rate_call.code = 429
        /\ (LastCallOf(identifier) /\ window[identifier].calls <= limiter.max_requests) =>
               rate_call.code = 200

C6_Witness ==
    \E identifier \in DOMAIN window :
        /\ window[identifier].calls = limiter.max_requests + 1
        /\ limiter.max_requests = 2
        /\ LastCallOf(identifier)
        /\ rate_call.code = 429

\* C7: every 429 of check_rate_limit carries a retry_after_seconds above zero,
\* at whatever instant of the window the rejected call arrives.
C7_RetryAfterPositive ==
    rate_call.code = 429 => rate_call.retry_after_seconds > 0

\* C8: a call that arrives when at least P seconds have passed since the stored
\* window start of its identifier is accepted whatever the stored count, the
\* stored record becomes (now, 1) and requests_remaining is N - 1.
C8_ElapsedWindowRestarts ==
    (/\ rate_call.before # <<>>
     /\ rate_call.at - rate_call.before[1] >= Seconds(limiter.period_seconds)) =>
        /\ rate_call.code = 200
        /\ rate_call.requests_remaining = limiter.max_requests - 1
        /\ rate_limit_store[rate_call.identifier] = <<rate_call.at, 1>>

C8_Witness ==
    /\ rate_call.before # <<>>
    /\ rate_call.before[2] = limiter.max_requests
    /\ rate_call.at - rate_call.before[1] = Seconds(limiter.period_seconds)
    /\ rate_call.code = 200
    /\ rate_limit_store[rate_call.identifier] = <<rate_call.at, 1>>

\* ======================= properties of the upload route ==================
Allowed(filename) == Lower(Suffix(filename)) \in Range(allowed_extensions)

\* C9 as it was stated: an upload longer than the maximum is answered 413, one
\* with an extension outside the allow-list is answered 400, both leave the
\* upload directory as it was, and an upload of exactly the maximum is accepted.
C9_AsStated ==
    [][\A filename \in Filenames, size \in Sizes :
          upload_file(filename, size) =>
              /\ size > max_size_bytes =>
                     response'.code = 413 /\ upload_dir' = upload_dir
              /\ ~Allowed(filename) =>
                     response'.code = 400 /\ upload_dir' = upload_dir
              /\ size = max_size_bytes =>
                     response'.code = 200 /\ upload_dir' # upload_dir]_vars

\* C9, amended: the extension is checked first.  An upload with an extension
\* outside the allow-list is answered 400 whatever its length; an upload with
\* an allowed extension is answered 413 if it is longer than the maximum and
\* is stored and answered 200 if it is exactly the maximum; an upload answered
\* 400 or 413 leaves the upload directory as it was.
C9_RejectsWriteNothing ==
    [][\A filename \in Filenames, size \in Sizes :
          upload_file(filename, size) =>
              /\ ~Allowed(filename) => response'.code = 400
              /\ (Allowed(filename) /\ size > max_size_bytes) => response'.code = 413
              /\ (Allowed(filename) /\ size = max_size_bytes) =>
                     /\ response'.code = 200
                     /\ \E file \in upload_dir' \ upload_dir : file.suffix = Lower(Suffix(filename))
              /\ response'.code \in {400, 413} => upload_dir' = upload_dir]_vars

C9_Witness ==
    /\ response = [op |-> "upload", code |-> 413]
    /\ upload_dir = {}
    /\ uploads = 0

\* ======================= properties of the key store =====================
\* C10: get_api_key answers 401 when no key is presented, 403 when the key was
\* never generated or was revoked, and passes the key exactly when it was
\* generated and not revoked; a revoked key does not validate again.
C10_RequiredKey ==
    [][\A api_key \in PresentedKeys :
          /\ get_api_key(api_key) =>
                auth_call'.result =
                    IF api_key \in {NULL, ""} THEN "401"
                    ELSE IF api_key \notin issued \/ api_key \in revoked THEN "403"
                    ELSE "key"
          /\ (validate_api_key(api_key) /\ api_key \in revoked) =>
                auth_call'.result = "False"
          /\ (validate_api_key(api_key) /\ auth_call'.result = "True") =>
                api_key \in issued \ revoked]_vars

C10_Witness ==
    /\ auth_call.op = "get_api_key"
    /\ auth_call.result = "403"
    /\ auth_call.key \in revoked
    /\ \E api_key \in issued \ revoked :
          api_keys_store[hash_api_key(api_key)].usage_count > 0

\* ===================== properties of the batch service ===================
\* create_clean_job has written the job file for the last time
BatchReturned(job_id) ==
    /\ job_id \in DOMAIN jobs_dir
    /\ IF batch_task.pc \in {"idle", "return"} THEN TRUE ELSE batch_task.job_id # job_id

\* C11: when create_clean_job(file_ids) returns, the persisted job has status
\* completed and a completed_at stamp, and its results list holds one outcome
\* per element of file_ids in the same order; a file whose cleaning raised has
\* the outcome failed with the text of the exception, and the files after it
\* have their outcomes too.
C11_BatchJobCompletes ==
    \A job_id \in DOMAIN jobs_dir :
        BatchReturned(job_id) =>
            LET job == jobs_dir[job_id]
            IN  /\ job.status = "completed"
                /\ "completed_at" \in DOMAIN job
                /\ job.completed_at # NULL
                /\ Len(job.results) = Len(job.file_ids)
                /\ \A i \in 1..Len(job.file_ids) :
                      LET result == clean_data(job.file_ids[i], job.aggressive)
                      IN  /\ job.results[i].file_id = job.file_ids[i]
                          /\ job.results[i].status \in {"success", "failed"}
                          /\ result.raised =>
                                /\ job.results[i].status = "failed"
                                /\ job.results[i].error = result.exc

\* a returned batch job whose first file failed and whose second file has an outcome
C11_Witness ==
    \E job_id \in DOMAIN jobs_dir :
        /\ BatchReturned(job_id)
        /\ batch_call.op = "create_clean_job"
        /\ Len(jobs_dir[job_id].file_ids) >= 2
        /\ jobs_dir[job_id].results[1].status = "failed"
        /\ jobs_dir[job_id].results[2].file_id = jobs_dir[job_id].file_ids[2]

\* C17: in a batch clean job every listed file id of a file that is in the
\* upload directory gets the outcome success with an output_file_id and is
\* counted in completed_files.
C17_ExistingFileSucceeds ==
    [][(/\ CleanFile
        /\ find_file_by_id(batch_task.file_ids[batch_task.next], upload_dir) # NOPATH)
       => LET results == batch_task'.job_data.results
              outcome == results[Len(results)]
          IN  /\ outcome.status = "success"
              /\ "output_file_id" \in DOMAIN outcome
              /\ batch_task'.job_data.completed_files
                    = batch_task.job_data.completed_files + 1]_vars

\* ===================== properties of the audit logger ====================
\* C12: get_audit_trail(f) returns exactly the entries logged with file id f,
\* in the order of the log_transformation calls, whatever was logged for f
\* and for other file ids before the call.
C12_TrailIsLogged ==
    audit_call.op = "get_audit_trail" =>
        /\ audit_call.raised = NULL
        /\ audit_call.result = logged[audit_call.file_id]

\* C18: the compliance report of a file gives gdpr_compliant = false exactly
\* when some logged entry carries PII_DETECTED and none carries PII_MASKED,
\* and gives sox_compliant and audit_trail_complete = true exactly when
\* something was logged for the file.
C18_ComplianceReported ==
    audit_call.op = "generate_compliance_report" =>
        LET trail == logged[audit_call.file_id]
            unmasked == "PII_DETECTED" \in Flags(trail) /\ "PII_MASKED" \notin Flags(trail)
        IN  /\ audit_call.raised = NULL
            /\ "compliance_status" \in DOMAIN audit_call.result
            /\ audit_call.result.compliance_status.gdpr_compliant = ~unmasked
            /\ audit_call.result.compliance_status.sox_compliant = (trail # <<>>)
            /\ audit_call.result.compliance_status.audit_trail_complete = (trail # <<>>)

\* ================ properties of the validator and the profiler ===========
Count(issues, level) == Cardinality({i \in DOMAIN issues : issues[i].level = level})

\* C13: for every list of issues the checks produce: in non-strict mode
\* passed holds iff there is no error; in strict mode the warnings follow the
\* errors in the errors list, the warnings list is empty and passed holds iff
\* there is neither an error nor a warning; the info issues never change
\* passed, and total_issues is the same in both modes.
C13_ValidatePassed ==
    validator.report # NOREPORT =>
        LET issues == validator.issues
            report == validator.report
            other == ValidationReport(issues, ~validator.strict)
        IN  /\ ~validator.strict =>
                 /\ report.passed = (Count(issues, ERROR) = 0)
                 /\ Len(report.warnings) = Count(issues, WARNING)
            /\ validator.strict =>
                 /\ report.warnings = <<>>
                 /\ Len(report.errors) = Count(issues, ERROR) + Count(issues, WARNING)
                 /\ \A i \in DOMAIN issues :
                       issues[i].level = WARNING => issues[i] \in Range(report.errors)
                 /\ report.passed = (Count(issues, ERROR) = 0 /\ Count(issues, WARNING) = 0)
            /\ report.passed = ValidationReport(SelectSeq(issues, LAMBDA i : ~IsInfo(i)),
                                                validator.strict).passed
            /\ Len(report.info) = Count(issues, INFO)
            /\ report.total_issues = Len(issues)
            /\ report.total_issues = other.total_issues

\* a strict validation of one warning, one info and no error has failed
C13_Witness ==
    /\ validator.report # NOREPORT
    /\ validator.strict
    /\ Count(validator.issues, WARNING) = 1
    /\ Count(validator.issues, ERROR) = 0
    /\ Count(validator.issues, INFO) = 1
    /\ validator.report.passed = FALSE
    /\ validator.report.warnings = <<>>
    /\ ValidationReport(validator.issues, FALSE).passed

\* C15: _calculate_engagement_level gives moderate for an absent score;
\* champion for score >= 90 with NPS >= 9; else active from 80; else moderate
\* from 60; else at_risk from 40 or when fewer than 60 days have passed since
\* the last purchase; else dormant.  An absent NPS or day count is read as 0.
C15_EngagementLevel ==
    engagement_call.level # NULL =>
        LET score == engagement_call.engagement_score
            nps == IF engagement_call.nps_score = None THEN 0 ELSE engagement_call.nps_score[1]
            days == IF engagement_call.days_since_purchase = None THEN 0
                    ELSE engagement_call.days_since_purchase[1]
            level == engagement_call.level
        IN  /\ score = None => level = "moderate"
            /\ score # None =>
                 /\ (score[1] >= 90 /\ nps >= 9) => level = "champion"
                 /\ (score[1] >= 90 /\ nps < 9) => level = "active"
                 /\ (score[1] >= 80 /\ score[1] < 90) => level = "active"
                 /\ (score[1] >= 60 /\ score[1] < 80) => level = "moderate"
                 /\ (score[1] >= 40 /\ score[1] < 60) => level = "at_risk"
                 /\ (score[1] < 40 /\ days < 60) => level = "at_risk"
                 /\ (score[1] < 40 /\ days >= 60) => level = "dormant"

\* score 30 with a purchase 100 days ago has been found dormant
C15_Witness ==
    /\ engagement_call.engagement_score = Some(30)
    /\ engagement_call.days_since_purchase = Some(100)
    /\ engagement_call.level = "dormant"

\* C19: profile_customers returns one profile per row of the table, in row
\* order, also for rows without an engagement score, NPS score or purchase
\* date; a row without an engagement score gets engagement_level moderate.
C19_OneProfilePerRow ==
    profiler.done =>
        /\ profiler.raised = NULL
        /\ Len(profiler.profiles) = Len(profiler.df)
        /\ \A i \in DOMAIN profiler.profiles :
              /\ profiler.profiles[i].raw_data = profiler.df[i]
              /\ profiler.df[i].engagement_score = None
                    => profiler.profiles[i].engagement_level = "moderate"

\* ===================== properties of the middleware stack ================
\* C14: every response sent carries the X-Process-Time header, the 4xx of
\* the route handlers and the 500 of the catch-all exception handler included.
C14_ProcessTimeHeader ==
    http.stage = "sent" => "X-Process-Time" \in http.headers

\* ================= properties of the file and job life cycle =============
Resolves(file_id, directory) == find_file_by_id(file_id, directory) # NOPATH

\* C16: a file id returned by a successful upload resolves, for GET /files
\* and for POST /clean, in every later state until a DELETE /files of that id
\* succeeds; from then on the id never resolves again, and GET /files,
\* DELETE /files and POST /clean for it answer 404 and create no job.
C16_FileLifecycle ==
    [][/\ uploads' # uploads =>
              /\ response' = [op |-> "upload", code |-> 200]
              /\ ~Resolves(FileId(uploads'), upload_dir)
              /\ Resolves(FileId(uploads'), upload_dir')
       /\ \A file_id \in FileIdArgs :
              LET before == Resolves(file_id, upload_dir)
                  after == Resolves(file_id, upload_dir')
              IN  /\ (before /\ ~after) => delete_file(file_id)
                  /\ (~before /\ file_id \in {FileId(n) : n \in 1..uploads}) => ~after
                  /\ (response'.op = "get_file_info" /\ get_file_info(file_id)) =>
                        response'.code = IF before THEN 200 ELSE 404
                  /\ (response'.op = "delete_file" /\ delete_file(file_id)) =>
                        IF before
                        THEN response'.code = 200 /\ ~after
                        ELSE response'.code = 404 /\ upload_dir' = upload_dir
                  /\ (/\ response'.op = "create_cleaning_job"
                      /\ \E request \in Requests :
                            request.file_id = file_id /\ create_cleaning_job(request)) =>
                        IF before
                        THEN /\ response'.code = 200
                             /\ \E job_id \in DOMAIN jobs_store' \ DOMAIN jobs_store :
                                    jobs_store'[job_id].file_id = file_id
                        ELSE response'.code = 404 /\ jobs_store' = jobs_store]_vars

\* the uploaded file has been deleted, and a later POST /clean was answered
\* 404 and made no job
C16_Witness ==
    /\ uploads = 1
    /\ ~Resolves(FileId(1), upload_dir)
    /\ jobs_store = <<>>
    /\ response = [op |-> "create_cleaning_job", code |-> 404]

\* C20: DELETE /jobs/{id} leaves the routine of the job scheduled; the routine
\* of a cancelled job starts like any other, overwrites the status cancelled,
\* runs all its steps and ends with the output file written and status
\* completed, or with status failed.
C20_CancelDoesNotStop ==
    [][\A job_id \in DOMAIN jobs_store :
          /\ (cancel_job(job_id) /\ response'.code = 200) =>
                /\ tasks' = tasks
                /\ tasks[job_id].pc = "scheduled"
                /\ jobs_store'[job_id].status = CANCELLED
          /\ (jobs_store[job_id].status = CANCELLED /\ SetProcessing(job_id)) =>
                /\ jobs_store'[job_id].status = PROCESSING
                /\ tasks'[job_id].pc = "started_at"
          /\ jobs_store[job_id].status = CANCELLED => tasks[job_id].pc = "scheduled"
          /\ Complete(job_id) =>
                /\ jobs_store'[job_id].status = COMPLETED
                /\ Resolves(jobs_store'[job_id].result_file_id, output_dir')
          /\ Except(job_id) => jobs_store'[job_id].status = FAILED]_vars

\* the job was cancelled, no handler has run since, and its routine has
\* ended with the output file written and status completed
C20_Witness ==
    \E job_id \in DOMAIN jobs_store :
        /\ response = [op |-> "cancel_job", code |-> 200]
        /\ Returned(job_id)
        /\ jobs_store[job_id].status = COMPLETED
        /\ Resolves(jobs_store[job_id].result_file_id, output_dir)

\* ================= properties of the job store under interleaving =========
\* the record as create_cleaning_job stores it
AsCreated(job) ==
    /\ job.status = PENDING
    /\ job.started_at = NULL /\ job.completed_at = NULL
    /\ job.progress = 0
    /\ job.result_file_id = NULL /\ job.error = NULL /\ job.report = NULL

\* the record of a job cancelled before its routine started
AsCancelled(job) ==
    /\ job.status = CANCELLED
    /\ job.started_at = NULL /\ job.completed_at # NULL
    /\ job.progress = 0
    /\ job.result_file_id = NULL /\ job.error = NULL /\ job.report = NULL

\* the record after the update of lines 159-165
AsCompleted(job) ==
    /\ job.status = COMPLETED
    /\ job.started_at # NULL /\ job.completed_at # NULL
    /\ job.progress = 100
    /\ job.result_file_id # NULL /\ job.error = NULL /\ job.report # NULL

\* the record after the update of lines 171-176
AsFailed(job) ==
    /\ job.status = FAILED
    /\ job.started_at # NULL /\ job.completed_at # NULL
    /\ job.progress = 0
    /\ job.result_file_id = NULL /\ job.error # NULL /\ job.report = NULL

\* the routine has stored status processing and started_at, and not yet a progress
PartlyUpdated(job) ==
    job.status = PROCESSING /\ job.started_at # NULL /\ job.progress = 0

\* C21 as stated: a GET /jobs/{id} request can be answered while the routine
\* of the job is between two of its writes, and then shows a partly updated
\* record, such as status processing with started_at set and progress 0.
C21_AsStated ==
    \A job_id \in DOMAIN jobs_store :
        PartlyUpdated(jobs_store[job_id]) => ENABLED get_job_status(job_id)

\* C21, amended: GET /jobs/{id} is never answered between two writes of a
\* routine; the record it shows is the one stored at creation, the one of a
\* job cancelled before its start, or the final one of a completed or failed
\* job, and never has status processing.
C21_NoPartialRead ==
    [][\A job_id \in DOMAIN jobs_store :
          get_job_status(job_id) =>
              LET job == jobs_store[job_id]
              IN  /\ response'.code = 200
                  /\ job.status # PROCESSING
                  /\ \/ AsCreated(job)
                     \/ AsCancelled(job)
                     \/ AsCompleted(job)
                     \/ AsFailed(job)]_vars

C21_Witness ==
    \E job_id \in DOMAIN jobs_store :
        /\ response = [op |-> "get_job_status", code |-> 200]
        /\ tasks[job_id].pc = "scheduled"
        /\ AsCreated(jobs_store[job_id])

OnlyCancelled(job_id) ==
    jobs_store' = [jobs_store EXCEPT ![job_id].status = jobs_store'[job_id].status,
                                     ![job_id].completed_at = jobs_store'[job_id].completed_at]

Checkpoints == <<0, 10, 20, 40, 70, 80, 90, 100>>

\* progress p is followed by q in the order of the checkpoints
NextCheckpoint(p, q) ==
    \E i \in 1..(Len(Checkpoints) - 1) : Checkpoints[i] = p /\ Checkpoints[i + 1] = q

\* C23: the progress of a job is always one of 0, 10, 20, 40, 70, 80, 90, 100;
\* a step of the routine that changes it moves it to the next of these values,
\* and the only step that lowers it is the except clause, which makes the job
\* failed and resets the progress to 0.
C23_ProgressCheckpoints ==
    [][\A job_id \in DOMAIN jobs_store' :
          LET after == jobs_store'[job_id].progress
          IN  /\ after \in Range(Checkpoints)
              /\ job_id \in DOMAIN jobs_store =>
                    LET before == jobs_store[job_id].progress
                    IN  /\ after > before =>
                              /\ NextCheckpoint(before, after)
                              /\ running' = job_id \/ running = job_id
                        /\ after < before =>
                              /\ after = 0
                              /\ Except(job_id)
                              /\ jobs_store'[job_id].status = FAILED]_vars

\* a routine that went through the checkpoints up to 90, wrote its file and
\* then failed, which resets the progress
C23_Witness ==
    \E job_id \in DOMAIN jobs_store :
        /\ Handled(job_id)
        /\ tasks[job_id].result_file_id # NULL
        /\ jobs_store[job_id].progress = 0
        /\ jobs_store[job_id].status = FAILED

\* ======================= properties of the key store, continued ==========
\* C24: for every stored key, usage_count is the number of validate_api_key
\* calls that presented the key since it was generated, and last_used is set
\* exactly when usage_count is above 0; a validate_api_key call with an empty
\* or unrecognised key returns False and leaves the key store as it was.
C24_UsageCounted ==
    [][/\ \A api_key \in issued' :
             LET key_hash == hash_api_key(api_key)
             IN  key_hash \in DOMAIN api_keys_store' =>
                     /\ api_key \in DOMAIN presented'
                     /\ api_keys_store'[key_hash].usage_count = presented'[api_key]
                     /\ api_keys_store'[key_hash].last_used # NULL
                            <=> api_keys_store'[key_hash].usage_count > 0
       /\ \A api_key \in PresentedKeys :
             (/\ validate_api_key(api_key)
              /\ IF api_key \in {NULL, ""} THEN TRUE
                 ELSE hash_api_key(api_key) \notin DOMAIN api_keys_store) =>
                 /\ auth_call'.result = "False"
                 /\ api_keys_store' = api_keys_store]_vars

\* a key validated twice beside a key never presented, after a call with an
\* unrecognised key
C24_Witness ==
    /\ auth_call = [op |-> "validate_api_key", key |-> "refyne_forged", result |-> "False"]
    /\ \E used, unused \in DOMAIN api_keys_store :
          /\ api_keys_store[used].usage_count = 2
          /\ api_keys_store[used].last_used # NULL
          /\ api_keys_store[unused].usage_count = 0
          /\ api_keys_store[unused].last_used = NULL

\* ======================= properties of the batch service, continued ======
\* what a job file may hold: the job as created, or the job after its last file
Persisted(job) ==
    \/ /\ job.status = "pending"
       /\ job.results = <<>>
       /\ job.completed_files = 0
    \/ /\ job.status = "completed"
       /\ Len(job.results) = job.total_files
       /\ \A i \in 1..job.total_files : job.results[i].file_id = job.file_ids[i]

\* C25: a job file holds either status pending with an empty results list or
\* status completed with one outcome per listed file, and so does every answer
\* of get_job_status and list_jobs; status processing and a partly filled
\* results list exist only inside the running call, and the value
\* create_clean_job returns says processing for a job stored as completed.
C25_BatchJobPersisted ==
    [][/\ \A job_id \in DOMAIN jobs_dir' : Persisted(jobs_dir'[job_id])
       /\ \A job_id \in BatchJobIdArgs :
             (batch_get_job_status(job_id) /\ job_id \in DOMAIN jobs_dir) =>
                 /\ batch_call'.result = jobs_dir[job_id]
                 /\ Persisted(batch_call'.result)
       /\ list_jobs =>
             /\ batch_call'.result.total_jobs = Cardinality(DOMAIN jobs_dir)
             /\ \A job \in batch_call'.result.jobs :
                   /\ job.status = jobs_dir[job.job_id].status
                   /\ job.status \in {"pending", "completed"}
                   /\ job.status = "pending" => job.completed_files = 0
       /\ ReturnJob =>
             /\ batch_call'.result.status = "processing"
             /\ jobs_dir'[batch_call'.result.job_id].status = "completed"]_vars

\* inside the call the job is processing with one of two outcomes while its
\* file still says pending
C25_Witness ==
    /\ batch_task.pc = "loop"
    /\ batch_task.job_data.status = "processing"
    /\ Len(batch_task.job_data.results) = 1
    /\ batch_task.job_data.total_files = 2
    /\ jobs_dir[batch_task.job_id].status = "pending"
    /\ jobs_dir[batch_task.job_id].results = <<>>

\* ======================= properties of the rate limiter, continued =======
\* what lines 82-133 answer and store for identifier when they work on the
\* store as it is, with nothing pruned
Unpruned(identifier, now) ==
    LET max_requests == limiter.max_requests
        period == Seconds(limiter.period_seconds)
    IN  IF identifier \notin DOMAIN rate_limit_store
        THEN [code |-> 200, requests_remaining |-> max_requests - 1,
              retry_after_seconds |-> -1, reset_at |-> now + period, entry |-> <<now, 1>>]
        ELSE LET window_start == rate_limit_store[identifier][1]
                 request_count == rate_limit_store[identifier][2]
             IN  IF WindowElapsed(now - window_start, period)
                 THEN [code |-> 200, requests_remaining |-> max_requests - 1,
                       retry_after_seconds |-> -1, reset_at |-> now + period,
                       entry |-> <<now, 1>>]
                 ELSE IF LimitExceeded(request_count, max_requests)
                 THEN [code |-> 429, requests_remaining |-> 0,
                       retry_after_seconds |-> WholeSeconds(window_start + period - now),
                       reset_at |-> window_start + period,
                       entry |-> rate_limit_store[identifier]]
                 ELSE [code |-> 200,
                       requests_remaining |-> max_requests - (request_count + 1),
                       retry_after_seconds |-> -1, reset_at |-> window_start + period,
                       entry |-> <<window_start, request_count + 1>>]

\* C26: a check_rate_limit call removes entries only when the store holds more
\* than 1000 of them, and then exactly the entries whose window started more
\* than two periods before; an entry whose window is still running is never
\* removed, and the call answers and stores for its caller what it would
\* answer and store with nothing removed.
C26_PruningKeepsOutcome ==
    [][\A request \in RateRequests :
          check_rate_limit(request) =>
              LET identifier == _get_identifier(request)
                  removed == DOMAIN rate_limit_store \ DOMAIN rate_limit_store'
                  age(key) == clock - rate_limit_store[key][1]
                  expected == Unpruned(identifier, clock)
              IN  /\ removed # {} => Cardinality(DOMAIN rate_limit_store) > 1000
                  /\ \A key \in removed :
                        /\ age(key) > Seconds(2 * limiter.period_seconds)
                        /\ ~(age(key) < Seconds(limiter.period_seconds))
                  /\ Cardinality(DOMAIN rate_limit_store) > 1000 =>
                        \A key \in DOMAIN rate_limit_store \ {identifier} :
                            age(key) > Seconds(2 * limiter.period_seconds) => key \in removed
                  /\ rate_call'.code = expected.code
                  /\ rate_call'.requests_remaining = expected.requests_remaining
                  /\ rate_call'.retry_after_seconds = expected.retry_after_seconds
                  /\ rate_call'.reset_at = expected.reset_at
                  /\ rate_limit_store'[identifier] = expected.entry
                  /\ \A key \in DOMAIN rate_limit_store' \ {identifier} :
                        rate_limit_store'[key] = rate_limit_store[key]]_vars

\* the caller's own entry went with the crowd's and the call seeded it anew
C26_Witness ==
    /\ Cardinality(DOMAIN rate_limit_store) = 1
    /\ rate_call.at > 0
    /\ rate_call.code = 200
    /\ rate_call.before = <<>>
    /\ rate_call.identifier \in DOMAIN rate_limit_store

\* ======================= properties of the job routes, continued =========
\* C27: when every routine that can take a step takes one in the end, every
\* job made by POST /clean reaches status completed or failed, whatever
\* cancel, status, upload and delete requests come in between.
C27_JobEnds ==
    \A job_id \in {JobId(n) : n \in 1..MaxJobs} :
        (job_id \in DOMAIN jobs_store) ~>
            (/\ job_id \in DOMAIN jobs_store
             /\ jobs_store[job_id].status \in {COMPLETED, FAILED})

\* a job that was cancelled on the way and is completed all the same
C27_Witness ==
    \E job_id \in DOMAIN jobs_store :
        /\ Returned(job_id)
        /\ jobs_store[job_id].status = COMPLETED
        /\ jobs_store[job_id].started_at # NULL
        /\ response = [op |-> "get_job_status", code |-> 200]

FileGoneBeforeRead(job_id) ==
    /\ job_id \in DOMAIN tasks
    /\ tasks[job_id].pc \in {"scheduled", "started_at", "progress", "load"}
    /\ tasks[job_id].file_path \notin upload_dir

\* C29: when the uploaded file of a job is deleted after POST /clean made the
\* job and before the routine reads the file, the read raises and the job ends
\* failed with the text of that exception as error; it does not stay pending
\* or processing, it gets no result file id and no output file is written for it.
C29_DeletedFileFails ==
    \A job_id \in {JobId(n) : n \in 1..MaxJobs} :
        FileGoneBeforeRead(job_id) ~>
            (/\ Handled(job_id)
             /\ jobs_store[job_id].status = FAILED
             /\ jobs_store[job_id].error = "File not found"
             /\ jobs_store[job_id].result_file_id = NULL
             /\ tasks[job_id].result_file_id = NULL
             /\ ~Resolves(ResultId(job_id), output_dir))

C29_Witness ==
    \E job_id \in DOMAIN jobs_store :
        /\ Handled(job_id)
        /\ jobs_store[job_id].status = FAILED
        /\ jobs_store[job_id].error = "File not found"
        /\ jobs_store[job_id].file_path \notin upload_dir
        /\ ~Resolves(ResultId(job_id), output_dir)

\* C30: a job whose status is failed has no result file id and no report, and
\* the output directory holds no file that the routine of this job wrote.
C30_FailedLeavesNothing ==
    \A job_id \in DOMAIN jobs_store :
        jobs_store[job_id].status = FAILED =>
            /\ jobs_store[job_id].result_file_id = NULL
            /\ jobs_store[job_id].report = NULL
            /\ ~Resolves(ResultId(job_id), output_dir)

====
